---------------------------- MODULE Spec2Model ----------------------------
(***************************************************************************)
(* A model of the automated validation suite's rule engine                 *)
(* (src/scripts/validation_engine.py): the ValidationReport, the           *)
(* ValidationEngine (configuration, rule set, model loading, rule loop),   *)
(* the five rules and the command line's report document.                  *)
(*                                                                         *)
(* Text is a sequence of pieces: one character each for text read from a   *)
(* file or a configuration, one piece for the fixed text of a format       *)
(* string.  A number is a decimal [int, neg, mant, exp], the number        *)
(* (-1)^neg * mant * 10^exp; int tells a Python int from a float.  A float *)
(* is kept canonical: mant has no trailing zero, and zero is [FALSE, 0, 0].*)
(* A dict is the sequence of its <<key, value>> pairs in insertion order.  *)
(***************************************************************************)
EXTENDS Integers, Sequences, FiniteSets, TLC

VARIABLES
    pc,          \* position of the program (main, the engine, or a rule call)
    args,        \* the command line: config (the override), output, model
    config,      \* ValidationEngine.config
    rules,       \* ValidationEngine.rules: the rule instances, in order
    error,       \* the exception that left the program, "none" if none did
    model_data,  \* the model data validate_model is working on
    pending,     \* files of the model directory rglob has not yielded yet
    report,      \* the ValidationReport
    raised,      \* indices of the rules whose validate raised (history)
    document,    \* the report document written to --output
    exit_code,   \* main's return value, -1 before it returns
    now,         \* the wall clock, in microseconds
    rule_index,  \* validate_model's place in self.rules
    calls        \* the validate_model calls made on one engine, each with
                 \* its own locals (model data, report, place in the call)

vars == <<pc, args, config, rules, error, model_data, pending, report,
          raised, document, exit_code, now, rule_index, calls>>

(***************************************************************************)
(* Bounds of the model.                                                    *)
(***************************************************************************)
MaxResults == 4
MaxRules == 2
MaxRequired == 2
MaxPresent == 2
MaxCalls == 2

(***************************************************************************)
(* Sequences.                                                              *)
(***************************************************************************)
Range(s) == {s[i] : i \in DOMAIN s}

SeqsUpTo(S, n) == UNION {[1..k -> S] : k \in 0..n}

(***************************************************************************)
(* Numbers.                                                                *)
(***************************************************************************)
RECURSIVE Pow10(_)
Pow10(n) == IF n = 0 THEN 1 ELSE 10 * Pow10(n - 1)

Abs(n) == IF n < 0 THEN -n ELSE n

RECURSIVE Canon(_, _, _)
\* the float (-1)^neg * mant * 10^exp
Canon(neg, mant, exp) ==
    IF mant = 0 THEN [int |-> FALSE, neg |-> FALSE, mant |-> 0, exp |-> 0]
    ELSE IF mant % 10 = 0 THEN Canon(neg, mant \div 10, exp + 1)
    ELSE [int |-> FALSE, neg |-> neg, mant |-> mant, exp |-> exp]

\* the float mant * 10^exp, for an integer mant of either sign
Float(mant, exp) == Canon(mant < 0, Abs(mant), exp)

\* a Python int
Int_(n) == [int |-> TRUE, neg |-> n < 0, mant |-> Abs(n), exp |-> 0]

\* the integer x * 10^(-e), for an exponent e not above that of x
Scaled(x, e) == (IF x.neg THEN -1 ELSE 1) * x.mant * Pow10(x.exp - e)

MinExp(x, y) == IF x.exp < y.exp THEN x.exp ELSE y.exp

\* the number of decimal digits of a positive integer
RECURSIVE NumDigits(_)
NumDigits(n) == IF n < 10 THEN 1 ELSE 1 + NumDigits(n \div 10)

\* the place of the leading digit of a nonzero x: 10^(m-1) <= |x| < 10^m
Magnitude(x) == NumDigits(x.mant) + x.exp

\* |x| < |y| for nonzero x and y: by the places of their leading digits, and
\* for equal places by the mantissas written to the same exponent
MagLess(x, y) ==
    IF Magnitude(x) # Magnitude(y) THEN Magnitude(x) < Magnitude(y)
    ELSE Abs(Scaled(x, MinExp(x, y))) < Abs(Scaled(y, MinExp(x, y)))

\* x < y
Less(x, y) ==
    IF x.mant = 0 THEN y.mant # 0 /\ ~y.neg
    ELSE IF y.mant = 0 THEN x.neg
    ELSE IF x.neg # y.neg THEN x.neg
    ELSE IF x.neg THEN MagLess(y, x)
    ELSE MagLess(x, y)

\* x - y
Minus(x, y) == Float(Scaled(x, MinExp(x, y)) - Scaled(y, MinExp(x, y)), MinExp(x, y))

\* x + y
Plus(x, y) == Float(Scaled(x, MinExp(x, y)) + Scaled(y, MinExp(x, y)), MinExp(x, y))

\* x * y
Times(x, y) == Canon(x.neg # y.neg, x.mant * y.mant, x.exp + y.exp)

\* total_seconds truncated to whole seconds
total_seconds_whole(us) == Canon(us < 0, Abs(us) \div 1000000, 0)

\* timedelta.total_seconds of a difference of us microseconds
total_seconds(us) == Canon(us < 0, Abs(us), -6)

(***************************************************************************)
(* Text.  A Python str is a sequence of pieces.  Text that comes from a    *)
(* file name, a file's content or a configuration is written one character *)
(* a piece; the fixed text of a format string is a single piece.           *)
(***************************************************************************)
UpperChars == <<"A", "B", "C", "D", "E", "F", "G", "H", "I", "J", "K", "L", "M",
                "N", "O", "P", "Q", "R", "S", "T", "U", "V", "W", "X", "Y", "Z">>
LowerChars == <<"a", "b", "c", "d", "e", "f", "g", "h", "i", "j", "k", "l", "m",
                "n", "o", "p", "q", "r", "s", "t", "u", "v", "w", "x", "y", "z">>

\* str.lower of one character
lower_char(c) ==
    IF \E i \in DOMAIN UpperChars : UpperChars[i] = c
    THEN LowerChars[CHOOSE i \in DOMAIN UpperChars : UpperChars[i] = c]
    ELSE c

\* str.lower that leaves the text as it is
lower_identity(s) == s

\* str.lower
lower(s) == [i \in DOMAIN s |-> lower_char(s[i])]

\* the operator `in` of two strings, matching only the whole string
str_in_whole(needle, hay) == needle = hay

\* the operator `in` of two strings, matching only at the start
str_in_prefix(needle, hay) ==
    Len(needle) <= Len(hay) /\ SubSeq(hay, 1, Len(needle)) = needle

\* the operator `in` of two strings: needle occurs in hay
str_in(needle, hay) ==
    \E i \in 1..(Len(hay) - Len(needle) + 1) :
        SubSeq(hay, i, i + Len(needle) - 1) = needle

\* str.endswith
endswith(s, suffix) ==
    /\ Len(suffix) <= Len(s)
    /\ SubSeq(s, Len(s) - Len(suffix) + 1, Len(s)) = suffix

RECURSIVE join(_, _)
\* sep.join(items)
join(sep, items) ==
    IF items = <<>> THEN <<>>
    ELSE IF Len(items) = 1 THEN items[1]
    ELSE items[1] \o sep \o join(sep, Tail(items))

RECURSIVE str_int(_)
\* str of a non-negative int: its decimal digits
str_int(n) ==
    LET Digits == <<"0", "1", "2", "3", "4", "5", "6", "7", "8", "9">>
    IN  IF n < 10 THEN <<Digits[n + 1]>>
        ELSE str_int(n \div 10) \o <<Digits[(n % 10) + 1]>>

dot_dat == <<".", "d", "a", "t">>
dot_inp == <<".", "i", "n", "p">>
dot_txt == <<".", "t", "x", "t">>
dot_csv == <<".", "c", "s", "v">>
dot_json == <<".", "j", "s", "o", "n">>
input_dat == <<"i", "n", "p", "u", "t", ".", "d", "a", "t">>
boundary_conditions_txt ==
    <<"b", "o", "u", "n", "d", "a", "r", "y", "_", "c", "o", "n", "d", "i", "t", "i", "o", "n", "s", ".", "t", "x", "t">>
material_properties_csv ==
    <<"m", "a", "t", "e", "r", "i", "a", "l", "_", "p", "r", "o", "p", "e", "r", "t", "i", "e", "s", ".", "c", "s", "v">>
temperature == <<"t", "e", "m", "p", "e", "r", "a", "t", "u", "r", "e">>
pressure == <<"p", "r", "e", "s", "s", "u", "r", "e">>
velocity == <<"v", "e", "l", "o", "c", "i", "t", "y">>
density == <<"d", "e", "n", "s", "i", "t", "y">>
temp == <<"t", "e", "m", "p">>
viscosity == <<"v", "i", "s", "c", "o", "s", "i", "t", "y">>
youngs_modulus ==
    <<"y", "o", "u", "n", "g", "s", "_", "m", "o", "d", "u", "l", "u", "s">>
poisson_ratio ==
    <<"p", "o", "i", "s", "s", "o", "n", "_", "r", "a", "t", "i", "o">>
BINARY_FILE == <<"[BINARY_FILE]">>

(***************************************************************************)
(* Numbers as text: str and repr, and the number parser of json.           *)
(***************************************************************************)
\* n times the piece "0"
Zeros(n) == [i \in 1..n |-> "0"]

\* repr of a float, in the '%.1f' format of the printed summary
float_repr_1f(x) ==
    LET tenths == IF x.exp >= -1 THEN x.mant * Pow10(x.exp + 1)
                  ELSE (x.mant + Pow10(-x.exp - 1) \div 2) \div Pow10(-x.exp - 1)
    IN  (IF x.neg THEN <<"-">> ELSE <<>>)
        \o str_int(tenths \div 10) \o <<".">> \o str_int(tenths % 10)

\* float.__repr__: the shortest digits that read back as the same float;
\* fixed notation while the decimal point lies within (-4, 16], and
\* scientific notation otherwise
float_repr(x) ==
    LET digits == str_int(x.mant)
        n      == Len(digits)
        decpt  == n + x.exp      \* x = 0.digits * 10^decpt
        sign   == IF x.neg THEN <<"-">> ELSE <<>>
        e      == decpt - 1
        edigs  == IF Abs(e) < 10 THEN <<"0">> \o str_int(Abs(e)) ELSE str_int(Abs(e))
    IN  IF x.mant = 0 THEN <<"0", ".", "0">>
        ELSE IF -4 < decpt /\ decpt <= 16
        THEN IF decpt <= 0 THEN sign \o <<"0", ".">> \o Zeros(-decpt) \o digits
             ELSE IF decpt >= n THEN sign \o digits \o Zeros(decpt - n) \o <<".", "0">>
             ELSE sign \o SubSeq(digits, 1, decpt) \o <<".">> \o SubSeq(digits, decpt + 1, n)
        ELSE sign \o <<digits[1]>>
             \o (IF n > 1 THEN <<".">> \o SubSeq(digits, 2, n) ELSE <<>>)
             \o <<"e">> \o (IF e < 0 THEN <<"-">> ELSE <<"+">>) \o edigs

\* str of an int of either sign
int_str(n) == (IF n < 0 THEN <<"-">> ELSE <<>>) \o str_int(Abs(n))

\* str of a number in a format string: an int or a float
num_str(x) ==
    IF x.int THEN int_str(IF x.neg THEN -x.mant ELSE x.mant) ELSE float_repr(x)

RECURSIVE int_of_digits(_)
\* int of a text of decimal digits
int_of_digits(s) ==
    LET Digits == <<"0", "1", "2", "3", "4", "5", "6", "7", "8", "9">>
    IN  IF s = <<>> THEN 0
        ELSE 10 * int_of_digits(SubSeq(s, 1, Len(s) - 1))
             + (CHOOSE d \in 0..9 : Digits[d + 1] = s[Len(s)])

\* the place of the first piece c in s, 0 if there is none
index_of(s, c) ==
    IF \E i \in DOMAIN s : s[i] = c
    THEN CHOOSE i \in DOMAIN s : s[i] = c /\ \A j \in 1..(i - 1) : s[j] # c
    ELSE 0

\* json's number scanner on the text of one number: a text with a fraction
\* or an exponent is a float, any other an int
json_number(s) ==
    LET neg    == s # <<>> /\ s[1] = "-"
        body   == IF neg THEN Tail(s) ELSE s
        epos   == index_of(body, "e")
        mtext  == IF epos = 0 THEN body ELSE SubSeq(body, 1, epos - 1)
        etext  == IF epos = 0 THEN <<>> ELSE SubSeq(body, epos + 1, Len(body))
        eneg   == etext # <<>> /\ etext[1] = "-"
        edigs  == IF etext # <<>> /\ etext[1] \in {"-", "+"} THEN Tail(etext) ELSE etext
        expo   == IF eneg THEN -int_of_digits(edigs) ELSE int_of_digits(edigs)
        dpos   == index_of(mtext, ".")
        whole  == IF dpos = 0 THEN mtext ELSE SubSeq(mtext, 1, dpos - 1)
        frac   == IF dpos = 0 THEN <<>> ELSE SubSeq(mtext, dpos + 1, Len(mtext))
    IN  IF epos = 0 /\ dpos = 0
        THEN Int_(IF neg THEN -int_of_digits(whole) ELSE int_of_digits(whole))
        ELSE Canon(neg, int_of_digits(whole \o frac), expo - Len(frac))

(***************************************************************************)
(* A dict is a sequence of <<key, value>> pairs with distinct keys, in     *)
(* insertion order.                                                        *)
(***************************************************************************)
keys(d) == [i \in DOMAIN d |-> d[i][1]]

has_key(d, k) == \E i \in DOMAIN d : d[i][1] = k

\* d[k], for a key of d
get(d, k) == d[CHOOSE i \in DOMAIN d : d[i][1] = k][2]

\* d.get(k, default)
get_or(d, k, default) == IF has_key(d, k) THEN get(d, k) ELSE default

\* d[k] = v: a key of d keeps its place, a new key goes last
set(d, k, v) ==
    IF has_key(d, k)
    THEN [i \in DOMAIN d |-> IF d[i][1] = k THEN <<k, v>> ELSE d[i]]
    ELSE Append(d, <<k, v>>)

RECURSIVE update(_, _)
\* d.update(other)
update(d, other) ==
    IF other = <<>> THEN d
    ELSE update(set(d, other[1][1], other[1][2]), Tail(other))

(***************************************************************************)
(* ValidationResult and ValidationReport.                                  *)
(***************************************************************************)
Severities == {"ERROR", "WARNING", "INFO"}

\* ValidationResult.__init__
ValidationResult(rule_id, passed, message, severity, details) ==
    [rule_id |-> rule_id, passed |-> passed, message |-> message,
     severity |-> severity, details |-> details]

\* a report object kept by the engine and handed to every call after the
\* first, instead of a new one
ValidationReport_kept(model_name, t) ==
    IF calls = <<>>
    THEN [model_name |-> model_name, results |-> <<>>,
          summary |-> [total_rules |-> 0, passed |-> 0, failed |-> 0,
                       warnings |-> 0, errors |-> 0],
          start_time |-> t, end_time |-> <<>>]
    ELSE [calls[Len(calls)].report EXCEPT !.model_name = model_name,
                                          !.start_time = t]

\* ValidationReport.__init__ at clock time t; end_time None is <<>>
ValidationReport(model_name, t) ==
    [model_name |-> model_name,
     results    |-> <<>>,
     summary    |-> [total_rules |-> 0, passed |-> 0, failed |-> 0,
                     warnings |-> 0, errors |-> 0],
     start_time |-> t,
     end_time   |-> <<>>]

\* the value of the variable report while no report exists
NoReport == ValidationReport("", 0)

\* add_result with the error counter raised for every failed result
add_result_any_failed(rep, result) ==
    [rep EXCEPT
        !.results = Append(@, result),
        !.summary = [@ EXCEPT
            !.total_rules = @ + 1,
            !.passed = IF result.passed THEN @ + 1 ELSE @,
            !.failed = IF result.passed THEN @ ELSE @ + 1,
            !.errors = IF ~result.passed THEN @ + 1 ELSE @,
            !.warnings = IF ~result.passed /\ result.severity = "WARNING"
                         THEN @ + 1 ELSE @]]

\* add_result with total_rules counting failures only
add_result_total_on_fail(rep, result) ==
    [rep EXCEPT
        !.results = Append(@, result),
        !.summary = [@ EXCEPT
            !.total_rules = IF result.passed THEN @ ELSE @ + 1,
            !.passed = IF result.passed THEN @ + 1 ELSE @,
            !.failed = IF result.passed THEN @ ELSE @ + 1,
            !.errors = IF ~result.passed /\ result.severity = "ERROR"
                       THEN @ + 1 ELSE @,
            !.warnings = IF ~result.passed /\ result.severity = "WARNING"
                         THEN @ + 1 ELSE @]]

\* ValidationReport.add_result
add_result(rep, result) ==
    [rep EXCEPT
        !.results = Append(@, result),
        !.summary = [@ EXCEPT
            !.total_rules = @ + 1,
            !.passed = IF result.passed THEN @ + 1 ELSE @,
            !.failed = IF result.passed THEN @ ELSE @ + 1,
            !.errors = IF ~result.passed /\ result.severity = "ERROR"
                       THEN @ + 1 ELSE @,
            !.warnings = IF ~result.passed /\ result.severity = "WARNING"
                         THEN @ + 1 ELSE @]]

\* finalize that leaves the summary without its duration
finalize_no_duration(rep, t) == [rep EXCEPT !.end_time = <<t>>]

\* ValidationReport.finalize at clock time t
finalize(rep, t) ==
    [rep EXCEPT
        !.end_time = <<t>>,
        !.summary = [k \in DOMAIN rep.summary \cup {"duration_seconds"} |->
                        IF k = "duration_seconds"
                        THEN total_seconds(t - rep.start_time)
                        ELSE rep.summary[k]]]

\* is_valid reading the failed counter
is_valid_no_failures(rep) == rep.summary.failed = 0

\* ValidationReport.is_valid
is_valid(rep) == rep.summary.errors = 0

\* ValidationReport.get_critical_errors
get_critical_errors(rep) ==
    SelectSeq(rep.results, LAMBDA r : ~r.passed /\ r.severity = "ERROR")

\* ValidationReport.get_warnings
get_warnings(rep) ==
    SelectSeq(rep.results, LAMBDA r : ~r.passed /\ r.severity = "WARNING")

(***************************************************************************)
(* The configuration and the rule set: ValidationEngine.__init__.          *)
(***************************************************************************)
\* default_config of _load_config
default_config ==
    << <<"file_types", <<dot_dat, dot_inp, dot_txt, dot_csv, dot_json>> >>,
       <<"parameter_ranges",
            << <<temperature, <<Int_(200), Int_(800)>> >>,
               <<pressure, <<Int_(0), Int_(500000)>> >>,
               <<velocity, <<Int_(0), Int_(100)>> >>,
               <<density, <<Float(1, -1), Int_(10000)>> >> >> >>,
       <<"required_files",
            <<input_dat, boundary_conditions_txt, material_properties_csv>> >>,
       <<"validation_rules",
            <<"file_existence", "file_format", "parameter_ranges",
              "cross_file_consistency", "physics_validation">> >> >>

\* what _load_config returns or raises
Returned(value) == [raised |-> FALSE, exc |-> "none", value |-> value]
Raised(exc) == [raised |-> TRUE, exc |-> exc, value |-> <<>>]

\* _load_config that falls back to the defaults when json.load raises
_load_config_swallow(config_path) ==
    IF config_path.given /\ config_path.exists /\ config_path.parses
    THEN Returned(update(default_config, config_path.doc))
    ELSE Returned(default_config)

\* _load_config that merges an override's parameter_ranges into the default
\* ranges instead of replacing them
_load_config_deep(config_path) ==
    IF config_path.given /\ config_path.exists
    THEN IF config_path.parses
         THEN LET doc == config_path.doc
                  merged == update(default_config, doc)
              IN  Returned(IF has_key(doc, "parameter_ranges")
                           THEN set(merged, "parameter_ranges",
                                    update(get(default_config, "parameter_ranges"),
                                           get(doc, "parameter_ranges")))
                           ELSE merged)
         ELSE Raised("JSONDecodeError")
    ELSE Returned(default_config)

\* _load_config that opens whatever path it is given
_load_config_strict(config_path) ==
    IF config_path.given
    THEN IF ~config_path.exists THEN Raised("FileNotFoundError")
         ELSE IF config_path.parses
         THEN Returned(update(default_config, config_path.doc))
         ELSE Raised("JSONDecodeError")
    ELSE Returned(default_config)

\* ValidationEngine._load_config; config_path says whether a path was given,
\* whether a file exists there, whether json.load parses it, and to what
_load_config(config_path) ==
    IF config_path.given /\ config_path.exists
    THEN IF config_path.parses
         THEN Returned(update(default_config, config_path.doc))
         ELSE Raised("JSONDecodeError")
    ELSE Returned(default_config)

\* ValidationRule.__init__: an instance of the base class
ValidationRule(cfg) ==
    [class |-> "ValidationRule", rule_id |-> "RULE", severity |-> "ERROR",
     config |-> cfg]

\* FileExistenceRule.__init__
FileExistenceRule(cfg) ==
    [class |-> "FileExistenceRule", rule_id |-> "FILE_EXISTENCE",
     severity |-> "ERROR",
     required_files |-> get_or(cfg, "required_files", <<>>)]

\* FileFormatRule.__init__
FileFormatRule(cfg) ==
    [class |-> "FileFormatRule", rule_id |-> "FILE_FORMAT",
     severity |-> "ERROR", config |-> cfg]

\* ParameterRangeRule.__init__
ParameterRangeRule(cfg) ==
    [class |-> "ParameterRangeRule", rule_id |-> "PARAMETER_RANGES",
     severity |-> "ERROR",
     parameter_ranges |-> get_or(cfg, "parameter_ranges", <<>>)]

\* CrossFileConsistencyRule.__init__
CrossFileConsistencyRule(cfg) ==
    [class |-> "CrossFileConsistencyRule", rule_id |-> "CROSS_FILE_CONSISTENCY",
     severity |-> "WARNING", config |-> cfg]

\* PhysicsValidationRule.__init__
PhysicsValidationRule(cfg) ==
    [class |-> "PhysicsValidationRule", rule_id |-> "PHYSICS_VALIDATION",
     severity |-> "ERROR", config |-> cfg]

\* the keys of rule_classes in _initialize_rules, in the order written
rule_class_names ==
    <<"file_existence", "file_format", "parameter_ranges",
      "cross_file_consistency", "physics_validation">>

\* rule_classes[rule_name](self.config)
rule_class(rule_name, cfg) ==
    CASE rule_name = "file_existence" -> FileExistenceRule(cfg)
      [] rule_name = "file_format" -> FileFormatRule(cfg)
      [] rule_name = "parameter_ranges" -> ParameterRangeRule(cfg)
      [] rule_name = "cross_file_consistency" -> CrossFileConsistencyRule(cfg)
      [] rule_name = "physics_validation" -> PhysicsValidationRule(cfg)

\* the loop body of _initialize_rules with a base-class rule for a name
\* that rule_classes does not hold
rule_instances_or_base(rule_name, cfg) ==
    IF rule_name \in Range(rule_class_names)
    THEN <<rule_class(rule_name, cfg)>>
    ELSE <<ValidationRule(cfg)>>

\* the loop body of _initialize_rules: the instances one rule_name adds
rule_instances(rule_name, cfg) ==
    IF rule_name \in Range(rule_class_names)
    THEN <<rule_class(rule_name, cfg)>>
    ELSE <<>>

RECURSIVE append_rules_once(_, _, _)
\* the loop of _initialize_rules that builds one instance per rule class
append_rules_once(acc, names, cfg) ==
    IF names = <<>> THEN acc
    ELSE IF \E i \in DOMAIN acc : <<acc[i]>> = rule_instances(names[1], cfg)
    THEN append_rules_once(acc, Tail(names), cfg)
    ELSE append_rules_once(acc \o rule_instances(names[1], cfg), Tail(names), cfg)

RECURSIVE append_rules(_, _, _)
\* the loop of _initialize_rules over the rule names still to visit
append_rules(acc, names, cfg) ==
    IF names = <<>> THEN acc
    ELSE append_rules(acc \o rule_instances(names[1], cfg), Tail(names), cfg)

\* _initialize_rules that walks rule_classes and keeps the configured names
_initialize_rules_by_class(cfg) ==
    append_rules(<<>>,
                 SelectSeq(rule_class_names,
                           LAMBDA n : n \in Range(get(cfg, "validation_rules"))),
                 cfg)

\* ValidationEngine._initialize_rules: the value of self.rules
_initialize_rules(cfg) == append_rules(<<>>, get(cfg, "validation_rules"), cfg)

(***************************************************************************)
(* The five rules.  validate returns Returned(result) or Raised(exc).      *)
(* model_data.files is the dict of file records by relative path,          *)
(* model_data.parameters the dict of floats by lowercased name.            *)
(***************************************************************************)
\* FileExistenceRule.validate
FileExistenceRule_validate(self, data) ==
    LET present_files == keys(data.files)
        found(required_file) ==
            \E i \in DOMAIN present_files :
                str_in(lower(required_file), lower(present_files[i]))
        missing_files == SelectSeq(self.required_files, LAMBDA r : ~found(r))
    IN  IF missing_files # <<>>
        THEN ValidationResult(self.rule_id, FALSE,
                <<"Missing required files: ">> \o join(<<", ">>, missing_files),
                self.severity,
                [missing_files |-> missing_files, present_files |-> present_files])
        ELSE ValidationResult(self.rule_id, TRUE,
                <<"All ">> \o str_int(Len(self.required_files))
                    \o <<" required files present">>,
                "INFO", <<>>)

RECURSIVE is_json(_)
\* whether json.loads accepts the text, for the JSON texts the model's
\* directories hold: an integer, the empty object, and arrays nested in
\* one another
is_json(s) ==
    LET Digits == {"0", "1", "2", "3", "4", "5", "6", "7", "8", "9"}
    IN  \/ s = <<"{", "}">>
        \/ s = <<"[", "]">>
        \/ s # <<>> /\ (\A i \in DOMAIN s : s[i] \in Digits)
                    /\ (Len(s) = 1 \/ s[1] # "0")
        \/ Len(s) > 2 /\ s[1] = "[" /\ s[Len(s)] = "]"
                      /\ is_json(SubSeq(s, 2, Len(s) - 1))

\* len(content.split('\n'))
line_count(content) == Cardinality({i \in DOMAIN content : content[i] = "\n"}) + 1

\* the body of FileFormatRule.validate's loop: the format errors of one file
format_errors_of(filename, file_info) ==
    LET content == file_info.content
    IN  IF content = <<>> \/ content = BINARY_FILE
        THEN << filename \o <<": Empty or unreadable file">> >>
        ELSE IF endswith(filename, dot_csv)
        THEN IF ~str_in(<<",">>, content)
             THEN << filename \o <<": CSV file missing comma separators">> >>
             ELSE <<>>
        ELSE IF endswith(filename, dot_json)
        THEN IF ~is_json(content)
             THEN << filename \o <<": Invalid JSON format - ">> \o <<"str(e)">> >>
             ELSE <<>>
        ELSE IF endswith(filename, dot_dat) \/ endswith(filename, dot_inp)
        THEN IF line_count(content) < 2
             THEN << filename \o <<": File appears incomplete (only ">>
                        \o str_int(line_count(content)) \o <<" lines)">> >>
             ELSE <<>>
        ELSE <<>>

RECURSIVE format_errors_first(_)
\* a loop that stops at the first file with a format error
format_errors_first(files) ==
    IF files = <<>> THEN <<>>
    ELSE IF format_errors_of(files[1][1], files[1][2]) # <<>>
    THEN format_errors_of(files[1][1], files[1][2])
    ELSE format_errors_first(Tail(files))

RECURSIVE format_errors(_)
\* the loop of FileFormatRule.validate over the files still to visit
format_errors(files) ==
    IF files = <<>> THEN <<>>
    ELSE format_errors_of(files[1][1], files[1][2]) \o format_errors(Tail(files))

\* FileFormatRule.validate
FileFormatRule_validate(self, data) ==
    LET errors == format_errors(data.files)
    IN  IF errors # <<>>
        THEN ValidationResult(self.rule_id, FALSE,
                <<"Format issues found in ">> \o str_int(Len(errors)) \o <<" files">>,
                self.severity, [format_errors |-> errors])
        ELSE ValidationResult(self.rule_id, TRUE,
                <<"All ">> \o str_int(Len(data.files))
                    \o <<" files have valid formats">>,
                "INFO", <<>>)

\* a range test that also rejects the two ends of the range
range_violation_at_ends(param_value, min_val, max_val) ==
    ~Less(min_val, param_value) \/ ~Less(param_value, max_val)

\* ParameterRangeRule.validate: param_value < min_val or param_value > max_val
range_violation(param_value, min_val, max_val) ==
    Less(param_value, min_val) \/ Less(max_val, param_value)

\* ParameterRangeRule.validate
ParameterRangeRule_validate(self, data) ==
    LET parameters == data.parameters
        min_val(name) == get(self.parameter_ranges, name)[1]
        max_val(name) == get(self.parameter_ranges, name)[2]
        violates(kv) ==
            /\ has_key(self.parameter_ranges, kv[1])
            /\ range_violation(kv[2], min_val(kv[1]), max_val(kv[1]))
        violating == SelectSeq(parameters, violates)
        range_violations ==
            [i \in DOMAIN violating |->
                [parameter |-> violating[i][1],
                 value |-> violating[i][2],
                 range |-> num_str(min_val(violating[i][1])) \o <<" to ">>
                           \o num_str(max_val(violating[i][1])),
                 violation_type |->
                    IF Less(violating[i][2], min_val(violating[i][1]))
                    THEN "below_minimum" ELSE "above_maximum"]]
        violation_msgs ==
            [i \in DOMAIN range_violations |->
                range_violations[i].parameter \o <<"=">>
                \o num_str(range_violations[i].value) \o <<" (valid range: ">>
                \o range_violations[i].range \o <<")">>]
        checked_params ==
            Len(SelectSeq(parameters, LAMBDA kv : has_key(self.parameter_ranges, kv[1])))
    IN  IF range_violations # <<>>
        THEN ValidationResult(self.rule_id, FALSE,
                <<"Parameter range violations: ">> \o join(<<"; ">>, violation_msgs),
                self.severity, [violations |-> range_violations])
        ELSE ValidationResult(self.rule_id, TRUE,
                <<"All ">> \o str_int(checked_params)
                    \o <<" checked parameters within valid ranges">>,
                "INFO", <<>>)

\* repr of a dict of floats by name
dict_repr(d) ==
    <<"{">> \o join(<<", ">>, [i \in DOMAIN d |->
                <<"'">> \o d[i][1] \o <<"': ">> \o num_str(d[i][2])]) \o <<"}">>

\* CrossFileConsistencyRule.validate
CrossFileConsistencyRule_validate(self, data) ==
    LET parameters == data.parameters
        temperature_values ==
            SelectSeq(parameters, LAMBDA kv : str_in(temp, lower(kv[1])))
        temps == [i \in DOMAIN temperature_values |-> temperature_values[i][2]]
        max_t == temps[CHOOSE i \in DOMAIN temps :
                        \A j \in DOMAIN temps : ~Less(temps[i], temps[j])]
        min_t == temps[CHOOSE i \in DOMAIN temps :
                        \A j \in DOMAIN temps : ~Less(temps[j], temps[i])]
        temperature_issue ==
            IF Len(temperature_values) > 1 /\ Less(Int_(50), Minus(max_t, min_t))
            THEN << <<"Temperature values vary significantly: ">>
                        \o dict_repr(temperature_values) >>
            ELSE <<>>
        file_count == data.metadata.file_count
        file_count_issue ==
            IF file_count < 3
            THEN << <<"Only ">> \o str_int(file_count)
                        \o <<" input files found - typical models have 3+ files">> >>
            ELSE <<>>
        consistency_issues == temperature_issue \o file_count_issue
    IN  IF consistency_issues # <<>>
        THEN ValidationResult(self.rule_id, FALSE,
                <<"Consistency issues found: ">> \o join(<<"; ">>, consistency_issues),
                self.severity, [issues |-> consistency_issues])
        ELSE ValidationResult(self.rule_id, TRUE,
                <<"Cross-file consistency checks passed">>, "INFO", <<>>)

\* abs(a - b) > c, by the sign of a - b: a - b > c is a - c > b, and
\* b - a > c is b > a + c
ratio_off(a, b, c) ==
    IF Less(b, a) THEN Less(b, Minus(a, c)) ELSE Less(Plus(a, c), b)

\* the density test without its test of density > 0
density_inconsistent_unguarded(temp_, pressure_, density_) ==
    /\ Less(Int_(0), temp_) /\ Less(Int_(0), pressure_)
    /\ ratio_off(Times(Int_(100), pressure_), Times(density_, temp_),
                 Times(Int_(50), pressure_))

\* PhysicsValidationRule.validate: the tests guarding the density
\* violation.  With temp > 0 the comparison
\* abs(pressure/temp - density/100) > (pressure/temp) * 0.5 is, multiplied
\* by 100 * temp, abs(100*pressure - density*temp) > 50*pressure.
density_inconsistent(temp_, pressure_, density_) ==
    /\ Less(Int_(0), temp_) /\ Less(Int_(0), pressure_)
    /\ Less(Int_(0), density_)
    /\ ratio_off(Times(Int_(100), pressure_), Times(density_, temp_),
                 Times(Int_(50), pressure_))

\* the unit test with 10 itself taken as unusually low
unit_confusion_inclusive(temp_) == Less(Int_(0), temp_) /\ ~Less(Int_(10), temp_)

\* PhysicsValidationRule.validate: temp > 0 and temp < 10
unit_confusion(temp_) == Less(Int_(0), temp_) /\ Less(temp_, Int_(10))

\* PhysicsValidationRule.validate
PhysicsValidationRule_validate(self, data) ==
    LET parameters == data.parameters
        zero == Int_(0)
        temp_ == get_or(parameters, temperature, zero)
        pressure_ == get_or(parameters, pressure, zero)
        density_ == get_or(parameters, density, zero)
        density_issue ==
            IF density_inconsistent(temp_, pressure_, density_)
            THEN << <<"Density (">> \o num_str(density_)
                        \o <<") inconsistent with temperature (">> \o num_str(temp_)
                        \o <<") and pressure (">> \o num_str(pressure_) \o <<")">> >>
            ELSE <<>>
        units_issue ==
            IF unit_confusion(temp_)
            THEN << <<"Temperature (">> \o num_str(temp_)
                        \o <<") unusually low - check units (Kelvin vs Celsius)">> >>
            ELSE <<>>
        physics_violations == density_issue \o units_issue
    IN  IF physics_violations # <<>>
        THEN ValidationResult(self.rule_id, FALSE,
                <<"Physics violations detected: ">> \o join(<<"; ">>, physics_violations),
                self.severity, [violations |-> physics_violations])
        ELSE ValidationResult(self.rule_id, TRUE,
                <<"Physics validation checks passed">>, "INFO", <<>>)

\* rule.validate(model_data, context): the method of the rule's class; the
\* base class raises NotImplementedError
validate(rule, data) ==
    CASE rule.class = "FileExistenceRule" ->
            Returned(FileExistenceRule_validate(rule, data))
      [] rule.class = "FileFormatRule" ->
            Returned(FileFormatRule_validate(rule, data))
      [] rule.class = "ParameterRangeRule" ->
            Returned(ParameterRangeRule_validate(rule, data))
      [] rule.class = "CrossFileConsistencyRule" ->
            Returned(CrossFileConsistencyRule_validate(rule, data))
      [] rule.class = "PhysicsValidationRule" ->
            Returned(PhysicsValidationRule_validate(rule, data))
      [] OTHER -> Raised(<<"Subclasses must implement validate method">>)

(***************************************************************************)
(* The model directories.  An entry of a directory is what rglob yields:   *)
(* its relative path, whether it is a file, the encoding its bytes decode  *)
(* in, the decoded content, st_size, the parameters _extract_parameters    *)
(* finds in the content, and the steps at which the file system may fail   *)
(* for it: "open" (the first open raises), "reopen" (the Latin-1 open      *)
(* raises), "stat_size" and "stat_mtime" (the stat calls of the file       *)
(* record), "stat_total" (the stat call of the size total).                *)
(***************************************************************************)
\* a model directory: three files, all required ones, pressure given twice
good_model ==
    {[path |-> input_dat,
          is_file |-> TRUE, encoding |-> "utf-8",
          content |-> <<"t", "e", "m", "p", "e", "r", "a", "t", "u", "r", "e",
              " ", "=", " ", "3", "0", "0", "\n", "p", "r", "e", "s", "s",
              "u", "r", "e", " ", "=", " ", "6", "0", "0", "\n", "d", "e",
              "n", "s", "i", "t", "y", " ", "=", " ", "2", "0", "0", "\n">>,
          size |-> 47,
          parameters |-> <<<<temperature, Float(3, 2)>>, <<pressure, Float(6,
              2)>>, <<density, Float(2, 2)>>>>,
          faults |-> {}],
     [path |-> boundary_conditions_txt,
          is_file |-> TRUE, encoding |-> "utf-8",
          content |-> <<"v", "e", "l", "o", "c", "i", "t", "y", ":", " ", "2",
              "5", "\n", "p", "r", "e", "s", "s", "u", "r", "e", ":", " ",
              "7", "0", "0", "\n">>,
          size |-> 27,
          parameters |-> <<<<velocity, Float(25, 0)>>, <<pressure, Float(7,
              2)>>>>,
          faults |-> {}],
     [path |-> material_properties_csv,
          is_file |-> TRUE, encoding |-> "utf-8",
          content |-> <<"n", "a", "m", "e", ",", "v", "a", "l", "u", "e",
              "\n">>,
          size |-> 11,
          parameters |-> <<>>,
          faults |-> {}]}

\* a model directory: two files, one of them empty
bad_model ==
    {[path |-> input_dat,
          is_file |-> TRUE, encoding |-> "utf-8",
          content |-> <<"t", "e", "m", "p", "e", "r", "a", "t", "u", "r", "e",
              " ", "=", " ", "5", "\n", "d", "e", "n", "s", "i", "t", "y",
              " ", "=", " ", "-", "2", ".", "5", "\n">>,
          size |-> 31,
          parameters |-> <<<<temperature, Float(5, 0)>>, <<density, Float(-25,
              -1)>>>>,
          faults |-> {}],
     [path |-> <<"m", "e", "s", "h", ".", "i", "n", "p">>,
          is_file |-> TRUE, encoding |-> "utf-8",
          content |-> <<>>,
          size |-> 0,
          parameters |-> <<>>,
          faults |-> {}]}

\* a model directory with a subdirectory, a file of an unlisted type, a
\* directory named like a file, broken JSON and a one-line .dat
nested_model ==
    {[path |-> <<"s", "u", "b">>,
          is_file |-> FALSE, encoding |-> "utf-8",
          content |-> <<>>,
          size |-> 0,
          parameters |-> <<>>,
          faults |-> {}],
     [path |-> <<"s", "u", "b", "/", "i", "n", "p", "u", "t", ".", "d", "a",
         "t">>,
          is_file |-> TRUE, encoding |-> "utf-8",
          content |-> <<"t", "e", "m", "p", "_", "i", "n", " ", "3", "0", "0",
              "\n", "t", "e", "m", "p", "_", "o", "u", "t", " ", "4", "0",
              "0", "\n">>,
          size |-> 25,
          parameters |-> <<<<<<"t", "e", "m", "p", "_", "i", "n">>, Float(3,
              2)>>, <<<<"t", "e", "m", "p", "_", "o", "u", "t">>, Float(4,
              2)>>>>,
          faults |-> {}],
     [path |-> <<"n", "o", "t", "e", "s", ".", "j", "s", "o", "n">>,
          is_file |-> TRUE, encoding |-> "utf-8",
          content |-> <<"{">>,
          size |-> 1,
          parameters |-> <<>>,
          faults |-> {}],
     [path |-> <<"t", "r", "a", "c", "e", ".", "l", "o", "g">>,
          is_file |-> TRUE, encoding |-> "utf-8",
          content |-> <<"p", "r", "e", "s", "s", "u", "r", "e", " ", "=", " ",
              "1", "\n">>,
          size |-> 13,
          parameters |-> <<<<pressure, Float(1, 0)>>>>,
          faults |-> {}],
     [path |-> <<"o", "u", "t", ".", "d", "a", "t">>,
          is_file |-> FALSE, encoding |-> "utf-8",
          content |-> <<>>,
          size |-> 0,
          parameters |-> <<>>,
          faults |-> {}],
     [path |-> <<"o", "n", "e", ".", "d", "a", "t">>,
          is_file |-> TRUE, encoding |-> "utf-8",
          content |-> <<"x">>,
          size |-> 1,
          parameters |-> <<>>,
          faults |-> {}]}

\* a model directory with a Latin-1 file and a file whose open or stat may fail
flaky_model ==
    {[path |-> <<"l", "e", "g", "a", "c", "y", ".", "t", "x", "t">>,
          is_file |-> TRUE, encoding |-> "latin-1",
          content |-> <<"p", "r", "e", "s", "s", "u", "r", "e", " ", "=", " ",
              "7", " ", "<e9>", "\n">>,
          size |-> 15,
          parameters |-> <<<<pressure, Float(7, 0)>>>>,
          faults |-> {"reopen"}],
     [path |-> <<"l", "o", "c", "k", "e", "d", ".", "c", "s", "v">>,
          is_file |-> TRUE, encoding |-> "utf-8",
          content |-> <<"a", ",", "b", "\n">>,
          size |-> 4,
          parameters |-> <<>>,
          faults |-> {"open", "stat_size", "stat_mtime", "stat_total"}],
     [path |-> input_dat,
          is_file |-> TRUE, encoding |-> "utf-8",
          content |-> <<"t", "e", "m", "p", "e", "r", "a", "t", "u", "r", "e",
              " ", "=", " ", "3", "0", "0", "\n">>,
          size |-> 18,
          parameters |-> <<<<temperature, Float(3, 2)>>>>,
          faults |-> {}]}

\* a model directory without files
empty_model ==
    {}

\* the directory create_valid_fluid_model writes
valid_fluid_model ==
    {[path |-> boundary_conditions_txt,
          is_file |-> TRUE, encoding |-> "utf-8",
          content |-> <<"#", " ", "B", "o", "u", "n", "d", "a", "r", "y", " ",
              "C", "o", "n", "d", "i", "t", "i", "o", "n", "s", "\n", "#",
              " ", "I", "n", "l", "e", "t", ":", " ", "F", "i", "x", "e", "d",
              " ", "v", "e", "l", "o", "c", "i", "t", "y", "\n", "#", " ",
              "O", "u", "t", "l", "e", "t", ":", " ", "F", "i", "x", "e", "d",
              " ", "p", "r", "e", "s", "s", "u", "r", "e", "\n", "#", " ",
              "W", "a", "l", "l", "s", ":", " ", "N", "o", "-", "s", "l", "i",
              "p", "\n", "\n", "I", "N", "L", "E", "T", "\n", " ", " ", "t",
              "y", "p", "e", " ", "=", " ", "v", "e", "l", "o", "c", "i", "t",
              "y", "_", "i", "n", "l", "e", "t", "\n", " ", " ", "v", "e",
              "l", "o", "c", "i", "t", "y", " ", "=", " ", "2", "5", ".", "0",
              "\n", " ", " ", "t", "e", "m", "p", "e", "r", "a", "t", "u",
              "r", "e", " ", "=", " ", "2", "9", "3", ".", "1", "5", "\n",
              " ", " ", "\n", "O", "U", "T", "L", "E", "T", "\n", " ", " ",
              "t", "y", "p", "e", " ", "=", " ", "p", "r", "e", "s", "s", "u",
              "r", "e", "_", "o", "u", "t", "l", "e", "t", "\n", " ", " ",
              "p", "r", "e", "s", "s", "u", "r", "e", " ", "=", " ", "1", "0",
              "1", "3", "2", "5", "\n", " ", " ", "\n", "W", "A", "L", "L",
              "S", "\n", " ", " ", "t", "y", "p", "e", " ", "=", " ", "n",
              "o", "_", "s", "l", "i", "p", "\n", " ", " ", "t", "e", "m",
              "p", "e", "r", "a", "t", "u", "r", "e", " ", "=", " ", "2", "9",
              "3", ".", "1", "5", "\n">>,
          size |-> 264,
          parameters |-> <<<<velocity, Float(25, 0)>>, <<temperature,
              Float(29315, -2)>>, <<pressure, Float(101325, 0)>>>>,
          faults |-> {}],
     [path |-> input_dat,
          is_file |-> TRUE, encoding |-> "utf-8",
          content |-> <<"#", " ", "F", "l", "u", "i", "d", " ", "D", "y", "n",
              "a", "m", "i", "c", "s", " ", "S", "i", "m", "u", "l", "a", "t",
              "i", "o", "n", " ", "I", "n", "p", "u", "t", "\n", "#", " ",
              "M", "o", "d", "e", "l", ":", " ", "P", "i", "p", "e", " ", "F",
              "l", "o", "w", " ", "A", "n", "a", "l", "y", "s", "i", "s",
              "\n", "#", " ", "C", "r", "e", "a", "t", "e", "d", ":", " ",
              "2", "0", "2", "4", "-", "0", "1", "-", "1", "5", "\n", "\n",
              "S", "I", "M", "U", "L", "A", "T", "I", "O", "N", "_", "T", "Y",
              "P", "E", " ", "=", " ", "F", "L", "U", "I", "D", "_", "D", "Y",
              "N", "A", "M", "I", "C", "S", "\n", "S", "O", "L", "V", "E",
              "R", " ", "=", " ", "N", "A", "V", "I", "E", "R", "_", "S", "T",
              "O", "K", "E", "S", "\n", "\n", "#", " ", "F", "l", "u", "i",
              "d", " ", "P", "r", "o", "p", "e", "r", "t", "i", "e", "s",
              "\n", "t", "e", "m", "p", "e", "r", "a", "t", "u", "r", "e",
              " ", "=", " ", "2", "9", "3", ".", "1", "5", "\n", "p", "r",
              "e", "s", "s", "u", "r", "e", " ", "=", " ", "1", "0", "1", "3",
              "2", "5", "\n", "d", "e", "n", "s", "i", "t", "y", " ", "=",
              " ", "1", ".", "2", "2", "5", "\n", "v", "i", "s", "c", "o",
              "s", "i", "t", "y", " ", "=", " ", "1", ".", "8", "1", "e", "-",
              "5", "\n", "v", "e", "l", "o", "c", "i", "t", "y", " ", "=",
              " ", "2", "5", ".", "0", "\n", "\n", "#", " ", "G", "e", "o",
              "m", "e", "t", "r", "y", "\n", "p", "i", "p", "e", "_", "d",
              "i", "a", "m", "e", "t", "e", "r", " ", "=", " ", "0", ".", "1",
              "\n", "p", "i", "p", "e", "_", "l", "e", "n", "g", "t", "h",
              " ", "=", " ", "2", ".", "0", "\n", "i", "n", "l", "e", "t",
              "_", "a", "r", "e", "a", " ", "=", " ", "0", ".", "0", "0", "7",
              "8", "5", "\n", "o", "u", "t", "l", "e", "t", "_", "a", "r",
              "e", "a", " ", "=", " ", "0", ".", "0", "0", "7", "8", "5",
              "\n", "\n", "#", " ", "S", "o", "l", "v", "e", "r", " ", "S",
              "e", "t", "t", "i", "n", "g", "s", "\n", "m", "a", "x", "_",
              "i", "t", "e", "r", "a", "t", "i", "o", "n", "s", " ", "=", " ",
              "1", "0", "0", "0", "\n", "c", "o", "n", "v", "e", "r", "g",
              "e", "n", "c", "e", "_", "t", "o", "l", "e", "r", "a", "n", "c",
              "e", " ", "=", " ", "1", "e", "-", "6", "\n", "t", "i", "m",
              "e", "_", "s", "t", "e", "p", " ", "=", " ", "0", ".", "0", "0",
              "1", "\n", "t", "o", "t", "a", "l", "_", "t", "i", "m", "e",
              " ", "=", " ", "1", "0", ".", "0", "\n", "\n", "#", " ", "O",
              "u", "t", "p", "u", "t", " ", "S", "e", "t", "t", "i", "n", "g",
              "s", "\n", "o", "u", "t", "p", "u", "t", "_", "f", "r", "e",
              "q", "u", "e", "n", "c", "y", " ", "=", " ", "1", "0", "0",
              "\n", "s", "a", "v", "e", "_", "p", "r", "e", "s", "s", "u",
              "r", "e", " ", "=", " ", "t", "r", "u", "e", "\n", "s", "a",
              "v", "e", "_", "v", "e", "l", "o", "c", "i", "t", "y", " ", "=",
              " ", "t", "r", "u", "e", "\n", "s", "a", "v", "e", "_", "t",
              "e", "m", "p", "e", "r", "a", "t", "u", "r", "e", " ", "=", " ",
              "t", "r", "u", "e", "\n">>,
          size |-> 559,
          parameters |-> <<<<temperature, Float(29315, -2)>>, <<pressure,
              Float(101325, 0)>>, <<density, Float(1225, -3)>>, <<viscosity,
              Float(181, -7)>>, <<velocity, Float(25, 0)>>, <<<<"p", "i", "p",
              "e", "_", "d", "i", "a", "m", "e", "t", "e", "r">>, Float(1,
              -1)>>, <<<<"p", "i", "p", "e", "_", "l", "e", "n", "g", "t",
              "h">>, Float(2, 0)>>, <<<<"i", "n", "l", "e", "t", "_", "a",
              "r", "e", "a">>, Float(785, -5)>>, <<<<"o", "u", "t", "l", "e",
              "t", "_", "a", "r", "e", "a">>, Float(785, -5)>>, <<<<"m", "a",
              "x", "_", "i", "t", "e", "r", "a", "t", "i", "o", "n", "s">>,
              Float(1, 3)>>, <<<<"c", "o", "n", "v", "e", "r", "g", "e", "n",
              "c", "e", "_", "t", "o", "l", "e", "r", "a", "n", "c", "e">>,
              Float(1, -6)>>, <<<<"t", "i", "m", "e", "_", "s", "t", "e",
              "p">>, Float(1, -3)>>, <<<<"t", "o", "t", "a", "l", "_", "t",
              "i", "m", "e">>, Float(1, 1)>>, <<<<"o", "u", "t", "p", "u",
              "t", "_", "f", "r", "e", "q", "u", "e", "n", "c", "y">>,
              Float(1, 2)>>, <<<<"c", "r", "e", "a", "t", "e", "d">>,
              Float(2024, 0)>>>>,
          faults |-> {}],
     [path |-> material_properties_csv,
          is_file |-> TRUE, encoding |-> "utf-8",
          content |-> <<"p", "r", "o", "p", "e", "r", "t", "y", ",", "v", "a",
              "l", "u", "e", ",", "u", "n", "i", "t", "s", "\n", "d", "e",
              "n", "s", "i", "t", "y", ",", "1", ".", "2", "2", "5", ",", "k",
              "g", "/", "m", "3", "\n", "v", "i", "s", "c", "o", "s", "i",
              "t", "y", ",", "1", ".", "8", "1", "e", "-", "5", ",", "P", "a",
              "<b7>", "s", "\n", "s", "p", "e", "c", "i", "f", "i", "c", "_",
              "h", "e", "a", "t", ",", "1", "0", "0", "5", ",", "J", "/", "k",
              "g", "<b7>", "K", "\n", "t", "h", "e", "r", "m", "a", "l", "_",
              "c", "o", "n", "d", "u", "c", "t", "i", "v", "i", "t", "y", ",",
              "0", ".", "0", "2", "6", ",", "W", "/", "m", "<b7>", "K",
              "\n">>,
          size |-> 131,
          parameters |-> <<>>,
          faults |-> {}],
     [path |-> <<"m", "e", "s", "h", "_", "i", "n", "f", "o", ".", "t", "x",
         "t">>,
          is_file |-> TRUE, encoding |-> "utf-8",
          content |-> <<"#", " ", "M", "e", "s", "h", " ", "C", "o", "n", "f",
              "i", "g", "u", "r", "a", "t", "i", "o", "n", "\n", "#", " ",
              "G", "e", "n", "e", "r", "a", "t", "e", "d", " ", "a", "u", "t",
              "o", "m", "a", "t", "i", "c", "a", "l", "l", "y", "\n", "\n",
              "M", "E", "S", "H", "_", "T", "Y", "P", "E", " ", "=", " ", "s",
              "t", "r", "u", "c", "t", "u", "r", "e", "d", "\n", "E", "L",
              "E", "M", "E", "N", "T", "S", " ", "=", " ", "5", "0", "0", "0",
              "0", "\n", "N", "O", "D", "E", "S", " ", "=", " ", "5", "2",
              "5", "0", "0", "\n", "\n", "#", " ", "E", "l", "e", "m", "e",
              "n", "t", " ", "Q", "u", "a", "l", "i", "t", "y", "\n", "m",
              "i", "n", "_", "a", "n", "g", "l", "e", " ", "=", " ", "4", "5",
              ".", "2", "\n", "m", "a", "x", "_", "a", "n", "g", "l", "e",
              " ", "=", " ", "1", "3", "4", ".", "8", "\n", "a", "s", "p",
              "e", "c", "t", "_", "r", "a", "t", "i", "o", "_", "m", "a", "x",
              " ", "=", " ", "2", ".", "1", "\n", "s", "k", "e", "w", "n",
              "e", "s", "s", "_", "m", "a", "x", " ", "=", " ", "0", ".", "2",
              "5", "\n", "\n", "#", " ", "B", "o", "u", "n", "d", "a", "r",
              "y", " ", "L", "a", "y", "e", "r", "s", "\n", "b", "o", "u",
              "n", "d", "a", "r", "y", "_", "l", "a", "y", "e", "r", "_", "t",
              "h", "i", "c", "k", "n", "e", "s", "s", " ", "=", " ", "0", ".",
              "0", "0", "1", "\n", "b", "o", "u", "n", "d", "a", "r", "y",
              "_", "l", "a", "y", "e", "r", "_", "g", "r", "o", "w", "t", "h",
              "_", "r", "a", "t", "e", " ", "=", " ", "1", ".", "2", "\n",
              "b", "o", "u", "n", "d", "a", "r", "y", "_", "l", "a", "y", "e",
              "r", "_", "c", "o", "u", "n", "t", " ", "=", " ", "5", "\n">>,
          size |-> 309,
          parameters |-> <<<<<<"e", "l", "e", "m", "e", "n", "t", "s">>,
              Float(5, 4)>>, <<<<"n", "o", "d", "e", "s">>, Float(525, 2)>>,
              <<<<"m", "i", "n", "_", "a", "n", "g", "l", "e">>, Float(452,
              -1)>>, <<<<"m", "a", "x", "_", "a", "n", "g", "l", "e">>,
              Float(1348, -1)>>, <<<<"a", "s", "p", "e", "c", "t", "_", "r",
              "a", "t", "i", "o", "_", "m", "a", "x">>, Float(21, -1)>>,
              <<<<"s", "k", "e", "w", "n", "e", "s", "s", "_", "m", "a",
              "x">>, Float(25, -2)>>, <<<<"b", "o", "u", "n", "d", "a", "r",
              "y", "_", "l", "a", "y", "e", "r", "_", "t", "h", "i", "c", "k",
              "n", "e", "s", "s">>, Float(1, -3)>>, <<<<"b", "o", "u", "n",
              "d", "a", "r", "y", "_", "l", "a", "y", "e", "r", "_", "g", "r",
              "o", "w", "t", "h", "_", "r", "a", "t", "e">>, Float(12, -1)>>,
              <<<<"b", "o", "u", "n", "d", "a", "r", "y", "_", "l", "a", "y",
              "e", "r", "_", "c", "o", "u", "n", "t">>, Float(5, 0)>>>>,
          faults |-> {}]}

\* the directory create_warning_structural_model writes
warning_structural_model ==
    {[path |-> boundary_conditions_txt,
          is_file |-> TRUE, encoding |-> "utf-8",
          content |-> <<"#", " ", "S", "t", "r", "u", "c", "t", "u", "r", "a",
              "l", " ", "B", "o", "u", "n", "d", "a", "r", "y", " ", "C", "o",
              "n", "d", "i", "t", "i", "o", "n", "s", "\n", "\n", "L", "E",
              "F", "T", "_", "E", "N", "D", "\n", " ", " ", "t", "y", "p",
              "e", " ", "=", " ", "f", "i", "x", "e", "d", "_", "s", "u", "p",
              "p", "o", "r", "t", "\n", " ", " ", "d", "i", "s", "p", "l",
              "a", "c", "e", "m", "e", "n", "t", "_", "x", " ", "=", " ", "0",
              "\n", " ", " ", "d", "i", "s", "p", "l", "a", "c", "e", "m",
              "e", "n", "t", "_", "y", " ", "=", " ", "0", "\n", " ", " ",
              "r", "o", "t", "a", "t", "i", "o", "n", "_", "z", " ", "=", " ",
              "0", "\n", " ", " ", "\n", "R", "I", "G", "H", "T", "_", "E",
              "N", "D", "\n", " ", " ", "t", "y", "p", "e", " ", "=", " ",
              "p", "i", "n", "n", "e", "d", "_", "s", "u", "p", "p", "o", "r",
              "t", " ", " ", "\n", " ", " ", "d", "i", "s", "p", "l", "a",
              "c", "e", "m", "e", "n", "t", "_", "x", " ", "=", " ", "F", "R",
              "E", "E", "\n", " ", " ", "d", "i", "s", "p", "l", "a", "c",
              "e", "m", "e", "n", "t", "_", "y", " ", "=", " ", "0", "\n",
              " ", " ", "r", "o", "t", "a", "t", "i", "o", "n", "_", "z", " ",
              "=", " ", "F", "R", "E", "E", "\n", "\n", "L", "O", "A", "D",
              "I", "N", "G", "\n", " ", " ", "d", "i", "s", "t", "r", "i",
              "b", "u", "t", "e", "d", "_", "l", "o", "a", "d", " ", "=", " ",
              "5", "0", "0", "0", " ", "N", "/", "m", "\n", " ", " ", "p",
              "o", "i", "n", "t", "_", "l", "o", "a", "d", " ", "=", " ", "1",
              "0", "0", "0", "0", " ", "N", " ", "a", "t", " ", "x", "=", "1",
              ".", "0", "m", "\n">>,
          size |-> 301,
          parameters |-> <<<<<<"d", "i", "s", "p", "l", "a", "c", "e", "m",
              "e", "n", "t", "_", "x">>, Float(0, -1)>>, <<<<"d", "i", "s",
              "p", "l", "a", "c", "e", "m", "e", "n", "t", "_", "y">>,
              Float(0, -1)>>, <<<<"r", "o", "t", "a", "t", "i", "o", "n", "_",
              "z">>, Float(0, -1)>>, <<<<"d", "i", "s", "t", "r", "i", "b",
              "u", "t", "e", "d", "_", "l", "o", "a", "d">>, Float(5, 3)>>,
              <<<<"p", "o", "i", "n", "t", "_", "l", "o", "a", "d">>, Float(1,
              4)>>, <<<<"x">>, Float(1, 0)>>>>,
          faults |-> {}],
     [path |-> input_dat,
          is_file |-> TRUE, encoding |-> "utf-8",
          content |-> <<"#", " ", "S", "t", "r", "u", "c", "t", "u", "r", "a",
              "l", " ", "A", "n", "a", "l", "y", "s", "i", "s", "\n", "#",
              " ", "M", "o", "d", "e", "l", ":", " ", "B", "e", "a", "m", " ",
              "D", "e", "f", "l", "e", "c", "t", "i", "o", "n", " ", "S", "t",
              "u", "d", "y", "\n", "#", " ", "C", "r", "e", "a", "t", "e",
              "d", ":", " ", "2", "0", "2", "4", "-", "0", "3", "-", "0", "5",
              "\n", "\n", "S", "I", "M", "U", "L", "A", "T", "I", "O", "N",
              "_", "T", "Y", "P", "E", " ", "=", " ", "S", "T", "R", "U", "C",
              "T", "U", "R", "A", "L", "\n", "S", "O", "L", "V", "E", "R",
              " ", "=", " ", "L", "I", "N", "E", "A", "R", "_", "S", "T", "A",
              "T", "I", "C", "\n", "\n", "#", " ", "M", "a", "t", "e", "r",
              "i", "a", "l", " ", "P", "r", "o", "p", "e", "r", "t", "i", "e",
              "s", "\n", "y", "o", "u", "n", "g", "s", "_", "m", "o", "d",
              "u", "l", "u", "s", " ", "=", " ", "2", "0", "0", "0", "0", "0",
              "0", "0", "0", "0", "0", "0", " ", " ", "#", " ", "P", "a", " ",
              "(", "S", "t", "e", "e", "l", ")", "\n", "p", "o", "i", "s",
              "s", "o", "n", "_", "r", "a", "t", "i", "o", " ", "=", " ", "0",
              ".", "3", "\n", "d", "e", "n", "s", "i", "t", "y", " ", "=",
              " ", "7", "8", "5", "0", "\n", "y", "i", "e", "l", "d", "_",
              "s", "t", "r", "e", "n", "g", "t", "h", " ", "=", " ", "2", "5",
              "0", "0", "0", "0", "0", "0", "0", "\n", "\n", "#", " ", "G",
              "e", "o", "m", "e", "t", "r", "y", "\n", "b", "e", "a", "m",
              "_", "l", "e", "n", "g", "t", "h", " ", "=", " ", "2", ".", "0",
              "\n", "b", "e", "a", "m", "_", "w", "i", "d", "t", "h", " ",
              "=", " ", "0", ".", "1", "\n", "b", "e", "a", "m", "_", "h",
              "e", "i", "g", "h", "t", " ", "=", " ", "0", ".", "0", "5",
              "\n", "c", "r", "o", "s", "s", "_", "s", "e", "c", "t", "i",
              "o", "n", "a", "l", "_", "a", "r", "e", "a", " ", "=", " ", "b",
              "e", "a", "m", "_", "w", "i", "d", "t", "h", " ", "*", " ", "b",
              "e", "a", "m", "_", "h", "e", "i", "g", "h", "t", "\n", "\n",
              "#", " ", "L", "o", "a", "d", "i", "n", "g", " ", "C", "o", "n",
              "d", "i", "t", "i", "o", "n", "s", "\n", "d", "i", "s", "t",
              "r", "i", "b", "u", "t", "e", "d", "_", "l", "o", "a", "d", " ",
              "=", " ", "5", "0", "0", "0", " ", " ", " ", " ", " ", "#", " ",
              "N", "/", "m", "\n", "p", "o", "i", "n", "t", "_", "l", "o",
              "a", "d", " ", "=", " ", "1", "0", "0", "0", "0", " ", " ", " ",
              " ", " ", " ", " ", " ", " ", "#", " ", "N", "\n", "l", "o",
              "a", "d", "_", "p", "o", "s", "i", "t", "i", "o", "n", " ", "=",
              " ", "1", ".", "0", " ", " ", " ", " ", " ", " ", " ", " ", "#",
              " ", "m", " ", "f", "r", "o", "m", " ", "l", "e", "f", "t", " ",
              "e", "n", "d", "\n", "\n", "#", " ", "W", "A", "R", "N", "I",
              "N", "G", ":", " ", "H", "i", "g", "h", " ", "l", "o", "a", "d",
              " ", "f", "o", "r", " ", "g", "i", "v", "e", "n", " ", "g", "e",
              "o", "m", "e", "t", "r", "y", "\n", "#", " ", "l", "o", "a",
              "d", "_", "s", "a", "f", "e", "t", "y", "_", "f", "a", "c", "t",
              "o", "r", " ", "=", " ", "d", "i", "s", "t", "r", "i", "b", "u",
              "t", "e", "d", "_", "l", "o", "a", "d", " ", "/", " ", "y", "i",
              "e", "l", "d", "_", "s", "t", "r", "e", "n", "g", "t", "h", " ",
              "*", " ", "b", "e", "a", "m", "_", "l", "e", "n", "g", "t", "h",
              " ", " ", "\n", "\n", "#", " ", "B", "o", "u", "n", "d", "a",
              "r", "y", " ", "C", "o", "n", "d", "i", "t", "i", "o", "n", "s",
              "\n", "l", "e", "f", "t", "_", "s", "u", "p", "p", "o", "r",
              "t", " ", "=", " ", "F", "I", "X", "E", "D", "\n", "r", "i",
              "g", "h", "t", "_", "s", "u", "p", "p", "o", "r", "t", " ", "=",
              " ", "P", "I", "N", "N", "E", "D", "\n", "\n", "#", " ", "A",
              "n", "a", "l", "y", "s", "i", "s", " ", "S", "e", "t", "t", "i",
              "n", "g", "s", "\n", "m", "a", "x", "_", "i", "t", "e", "r",
              "a", "t", "i", "o", "n", "s", " ", "=", " ", "5", "0", "0",
              "\n", "c", "o", "n", "v", "e", "r", "g", "e", "n", "c", "e",
              "_", "t", "o", "l", "e", "r", "a", "n", "c", "e", " ", "=", " ",
              "1", "e", "-", "5", "\n">>,
          size |-> 755,
          parameters |-> <<<<<<"y", "o", "u", "n", "g", "s", "_", "m", "o",
              "d", "u", "l", "u", "s">>, Float(2, 11)>>, <<<<"p", "o", "i",
              "s", "s", "o", "n", "_", "r", "a", "t", "i", "o">>, Float(3,
              -1)>>, <<density, Float(785, 1)>>, <<<<"y", "i", "e", "l", "d",
              "_", "s", "t", "r", "e", "n", "g", "t", "h">>, Float(25, 7)>>,
              <<<<"b", "e", "a", "m", "_", "l", "e", "n", "g", "t", "h">>,
              Float(2, 0)>>, <<<<"b", "e", "a", "m", "_", "w", "i", "d", "t",
              "h">>, Float(1, -1)>>, <<<<"b", "e", "a", "m", "_", "h", "e",
              "i", "g", "h", "t">>, Float(5, -2)>>, <<<<"d", "i", "s", "t",
              "r", "i", "b", "u", "t", "e", "d", "_", "l", "o", "a", "d">>,
              Float(5, 3)>>, <<<<"p", "o", "i", "n", "t", "_", "l", "o", "a",
              "d">>, Float(1, 4)>>, <<<<"l", "o", "a", "d", "_", "p", "o",
              "s", "i", "t", "i", "o", "n">>, Float(1, 0)>>, <<<<"m", "a",
              "x", "_", "i", "t", "e", "r", "a", "t", "i", "o", "n", "s">>,
              Float(5, 2)>>, <<<<"c", "o", "n", "v", "e", "r", "g", "e", "n",
              "c", "e", "_", "t", "o", "l", "e", "r", "a", "n", "c", "e">>,
              Float(1, -5)>>, <<<<"c", "r", "e", "a", "t", "e", "d">>,
              Float(2024, 0)>>>>,
          faults |-> {}],
     [path |-> material_properties_csv,
          is_file |-> TRUE, encoding |-> "utf-8",
          content |-> <<"p", "r", "o", "p", "e", "r", "t", "y", ",", "v", "a",
              "l", "u", "e", ",", "u", "n", "i", "t", "s", "\n", "y", "o",
              "u", "n", "g", "s", "_", "m", "o", "d", "u", "l", "u", "s", ",",
              "2", "0", "0", "0", "0", "0", "0", "0", "0", "0", "0", "0", ",",
              "P", "a", "\n", "p", "o", "i", "s", "s", "o", "n", "_", "r",
              "a", "t", "i", "o", ",", "0", ".", "3", ",", "d", "i", "m", "e",
              "n", "s", "i", "o", "n", "l", "e", "s", "s", "\n", "d", "e",
              "n", "s", "i", "t", "y", ",", "7", "8", "5", "0", ",", "k", "g",
              "/", "m", "3", "\n", "y", "i", "e", "l", "d", "_", "s", "t",
              "r", "e", "n", "g", "t", "h", ",", "2", "5", "0", "0", "0", "0",
              "0", "0", "0", ",", "P", "a", "\n">>,
          size |-> 136,
          parameters |-> <<>>,
          faults |-> {}]}

\* the entries under a model path
entries_of(model) ==
    CASE model = "good_model" -> good_model
      [] model = "bad_model" -> bad_model
      [] model = "nested_model" -> nested_model
      [] model = "flaky_model" -> flaky_model
      [] model = "valid_fluid_model" -> valid_fluid_model
      [] model = "warning_structural_model" -> warning_structural_model
      [] OTHER -> empty_model

(***************************************************************************)
(* Model loading: ValidationEngine._load_model_data.                       *)
(***************************************************************************)
\* Path.suffix: the last dot of the final component and what follows it,
\* unless the dot is the component's first or last character
suffix(path) ==
    LET slashes == {i \in DOMAIN path : path[i] = "/"}
        start == IF slashes = {} THEN 1
                 ELSE (CHOOSE i \in slashes : \A j \in slashes : j <= i) + 1
        name == SubSeq(path, start, Len(path))
        dots == {i \in DOMAIN name : name[i] = "."}
        last == CHOOSE i \in dots : \A j \in dots : j <= i
    IN  IF dots = {} \/ last = 1 \/ last = Len(name) THEN <<>>
        ELSE SubSeq(name, last, Len(name))

\* _read_file_safely that lets the failure of the Latin-1 open leave it
_read_file_safely_raising(entry, failure) ==
    IF failure = "open" THEN Raised("OSError")
    ELSE IF entry.encoding = "utf-8" THEN Returned(entry.content)
    ELSE IF failure = "reopen" THEN Raised("OSError")
    ELSE Returned(entry.content)

\* ValidationEngine._read_file_safely for an entry, with the failure the
\* file system produces at this call ("ok" for none)
_read_file_safely(entry, failure) ==
    IF failure = "open" THEN Raised("OSError")
    ELSE IF entry.encoding = "utf-8" THEN Returned(entry.content)
    ELSE IF failure = "reopen" THEN Returned(BINARY_FILE)
    ELSE Returned(entry.content)

(***************************************************************************)
(* Parameter extraction: the three regular expressions of                  *)
(* _extract_parameters, matched as re.findall matches them.  In each       *)
(* pattern what follows \w+ starts with a character that is not a word     *)
(* character, and what follows \s* or \s+ starts with one that is not      *)
(* white space, so a match from a given start takes the longest run of     *)
(* each; the number takes its sign, its digits, a fraction when a digit    *)
(* follows the point, and an exponent when a digit follows the e.          *)
(***************************************************************************)
\* the characters \d, \w and \s match, among those of the model's texts
DigitChars == {"0", "1", "2", "3", "4", "5", "6", "7", "8", "9"}
WordChars == Range(LowerChars) \cup Range(UpperChars) \cup DigitChars \cup {"_"}
SpaceChars == {" ", "\t", "\n", "\r"}

RECURSIVE run_end(_, _, _)
\* the place after the longest run of characters of cs that starts at i
run_end(s, i, cs) ==
    IF i <= Len(s) /\ s[i] \in cs THEN run_end(s, i + 1, cs) ELSE i

\* the place after an optional sign at i
sign_end(s, i) == IF i <= Len(s) /\ s[i] \in {"-", "+"} THEN i + 1 ELSE i

\* [-+]?\d*\.?\d+(?:[eE][-+]?\d+)? at i: the place after the match, 0 when
\* there is none
number_end(s, i) ==
    LET int_end == run_end(s, sign_end(s, i), DigitChars)
        frac_end == IF int_end <= Len(s) /\ s[int_end] = "."
                    THEN run_end(s, int_end + 1, DigitChars) ELSE int_end
        mant_end == IF frac_end > int_end + 1 THEN frac_end ELSE int_end
        exp_from == IF mant_end <= Len(s) /\ s[mant_end] \in {"e", "E"}
                    THEN sign_end(s, mant_end + 1) ELSE 0
        exp_end == IF exp_from = 0 THEN 0 ELSE run_end(s, exp_from, DigitChars)
    IN  IF mant_end = sign_end(s, i) THEN 0
        ELSE IF exp_end > exp_from THEN exp_end
        ELSE mant_end

\* the three patterns, in the order of the list
patterns == <<"key=value", "key: value", "key value">>

\* the match of a pattern that starts at i: the key, the text of the number
\* and the place after the match; ok is FALSE when there is none
match_at(pattern, s, i) ==
    LET key_end == run_end(s, i, WordChars)
        gap_end == run_end(s, key_end, SpaceChars)
        num_from ==
            CASE pattern = "key=value" ->
                    IF gap_end <= Len(s) /\ s[gap_end] = "="
                    THEN run_end(s, gap_end + 1, SpaceChars) ELSE 0
              [] pattern = "key: value" ->
                    IF key_end <= Len(s) /\ s[key_end] = ":"
                    THEN run_end(s, key_end + 1, SpaceChars) ELSE 0
              [] pattern = "key value" ->
                    IF gap_end > key_end THEN gap_end ELSE 0
        num_end == IF num_from = 0 THEN 0 ELSE number_end(s, num_from)
    IN  IF key_end > i /\ num_end # 0
        THEN [ok |-> TRUE, key |-> SubSeq(s, i, key_end - 1),
              value |-> SubSeq(s, num_from, num_end - 1), end |-> num_end]
        ELSE [ok |-> FALSE, key |-> <<>>, value |-> <<>>, end |-> 0]

RECURSIVE findall(_, _, _)
\* re.findall(pattern, content, re.IGNORECASE) from place i on: the
\* <<key, value>> pairs of the matches, leftmost first, none overlapping
findall(pattern, s, i) ==
    IF i > Len(s) THEN <<>>
    ELSE LET m == match_at(pattern, s, i)
         IN  IF m.ok THEN << <<m.key, m.value>> >> \o findall(pattern, s, m.end)
             ELSE findall(pattern, s, i + 1)

\* float(value) of the text of a number the patterns matched
float_of(value) ==
    LET neg == value[1] = "-"
        from == sign_end(value, 1)
        int_end == run_end(value, from, DigitChars)
        frac_end == IF int_end <= Len(value) /\ value[int_end] = "."
                    THEN run_end(value, int_end + 1, DigitChars) ELSE int_end
        digits == SubSeq(value, from, int_end - 1)
                    \o SubSeq(value, int_end + 1, frac_end - 1)
        places == IF frac_end > int_end THEN frac_end - int_end - 1 ELSE 0
        exp_from == IF frac_end <= Len(value) THEN sign_end(value, frac_end + 1)
                    ELSE 0
        exponent == IF exp_from = 0 THEN 0
                    ELSE (IF value[frac_end + 1] = "-" THEN -1 ELSE 1)
                            * int_of_digits(SubSeq(value, exp_from, Len(value)))
    IN  Canon(neg, int_of_digits(digits), exponent - places)

\* parameters.setdefault(key.lower(), float(value)): a name keeps its first
\* value
store_match_once(parameters, key, value) ==
    IF has_key(parameters, lower(key)) THEN parameters
    ELSE set(parameters, lower(key), float_of(value))

\* parameters[key.lower()] = float(value)
store_match(parameters, key, value) == set(parameters, lower(key), float_of(value))

RECURSIVE store_matches(_, _)
\* the inner loop of _extract_parameters over the matches of one pattern
store_matches(parameters, matches) ==
    IF matches = <<>> THEN parameters
    ELSE store_matches(store_match(parameters, matches[1][1], matches[1][2]),
                       Tail(matches))

RECURSIVE extract_from(_, _, _)
\* the outer loop of _extract_parameters from the k-th pattern on
extract_from(parameters, k, content) ==
    IF k > Len(patterns) THEN parameters
    ELSE extract_from(store_matches(parameters, findall(patterns[k], content, 1)),
                      k + 1, content)

\* ValidationEngine._extract_parameters on a text
extract_parameters(content) == extract_from(<<>>, 1, content)

\* ValidationEngine._extract_parameters on the content read for an entry
_extract_parameters(entry, content) ==
    IF content = entry.content THEN entry.parameters ELSE <<>>

\* the body of _load_model_data's loop for one entry
load_entry(data, entry, failure, cfg) ==
    IF entry.is_file /\ suffix(entry.path) \in Range(get(cfg, "file_types"))
    THEN LET content == _read_file_safely(entry, failure)
         IN  IF content.raised \/ failure \in {"stat_size", "stat_mtime"}
             THEN data
             ELSE LET parameters == _extract_parameters(entry, content.value)
                      stored ==
                        [data EXCEPT
                            !.files = set(@, entry.path,
                                          [path |-> entry.path,
                                           content |-> content.value,
                                           size |-> entry.size]),
                            !.parameters = IF parameters # <<>>
                                           THEN update(@, parameters) ELSE @,
                            !.metadata.file_count = @ + 1]
                  IN  IF failure = "stat_total" THEN stored
                      ELSE [stored EXCEPT !.metadata.total_size = @ + entry.size]
    ELSE data

\* what datetime.now() may have advanced by between two readings
Elapsed == {0, 15, 120, 1000000, 1500000, 61000015}

(***************************************************************************)
(* The values of the variables a specification does not use.               *)
(***************************************************************************)
NoArgs == [config |-> [given |-> FALSE, exists |-> FALSE, parses |-> FALSE,
                       doc |-> <<>>],
           output |-> FALSE, model |-> "none"]
NoConfig == <<>>
NoModelData == [files |-> <<>>, parameters |-> <<>>,
                metadata |-> [file_count |-> 0, total_size |-> 0]]
NoDocument == <<>>

(***************************************************************************)
(* The report document of main: json.dump of report_data, and json.load.   *)
(* A document keeps the structure of report_data; each number and boolean  *)
(* in it is the text json writes for it.                                   *)
(***************************************************************************)
\* datetime.isoformat, on the clock's microseconds
isoformat(t) == int_str(t)

\* json's text of a bool
json_bool(b) == IF b THEN <<"true">> ELSE <<"false">>

\* json's text of a summary value in the print format of the summary
json_summary_value_1f(key, v) ==
    IF key = "duration_seconds" THEN float_repr_1f(v) ELSE int_str(v)

\* json's text of a summary value: float.__repr__ for the duration, the
\* decimal digits for the counters
json_summary_value(key, v) ==
    IF key = "duration_seconds" THEN float_repr(v) ELSE int_str(v)

\* json.dump(report_data) in main
json_dump_report(rep) ==
    [model_name |-> rep.model_name,
     summary    |-> [k \in DOMAIN rep.summary |->
                        json_summary_value(k, rep.summary[k])],
     start_time |-> isoformat(rep.start_time),
     end_time   |-> IF rep.end_time = <<>> THEN <<"null">>
                    ELSE isoformat(rep.end_time[1]),
     is_valid   |-> json_bool(is_valid(rep)),
     results    |-> [i \in DOMAIN rep.results |->
                        [rule_id  |-> rep.results[i].rule_id,
                         passed   |-> json_bool(rep.results[i].passed),
                         message  |-> rep.results[i].message,
                         severity |-> rep.results[i].severity,
                         details  |-> rep.results[i].details]]]

\* the Python value of a number json has scanned: an int or a float
number_value(x) == IF x.int THEN (IF x.neg THEN -x.mant ELSE x.mant) ELSE x

\* json.load of the document: its summary and is_valid
json_load_report(doc) ==
    [summary  |-> [k \in DOMAIN doc.summary |->
                      number_value(json_number(doc.summary[k]))],
     is_valid |-> doc.is_valid = <<"true">>]

(***************************************************************************)
(* Spec: main.  It checks the model path, builds the engine from the       *)
(* configuration argument, validates the model directory (loading the      *)
(* files in the order rglob yields them, then running the rules in order), *)
(* writes the report document when --output is given and returns.          *)
(***************************************************************************)
\* the --config argument: whether it is given, whether a file exists at the
\* path, whether json.load parses it, and the object it parses to
NotGiven == [given |-> FALSE, exists |-> FALSE, parses |-> FALSE, doc |-> <<>>]
GivenMissing == [given |-> TRUE, exists |-> FALSE, parses |-> FALSE, doc |-> <<>>]
GivenBroken == [given |-> TRUE, exists |-> TRUE, parses |-> FALSE, doc |-> <<>>]
Given(doc) == [given |-> TRUE, exists |-> TRUE, parses |-> TRUE, doc |-> doc]

\* the rule identifiers of the generated validation_rules lists: two known
\* ERROR rules, the WARNING rule and an identifier no rule has
ListedNames ==
    {"file_existence", "cross_file_consistency", "physics_validation",
     "no_such_rule"}

\* overrides that name validation_rules alone
RuleListDocs ==
    {<< <<"validation_rules", names>> >> : names \in SeqsUpTo(ListedNames, MaxRules)}

\* an override that names parameter_ranges alone, with one range
RangesDoc ==
    << <<"parameter_ranges", << <<temperature, <<Int_(0), Int_(4)>> >> >> >> >>

\* an override with a field the default does not have, a reordered rule
\* list with an unknown identifier in it, and fewer file types
MixedDoc ==
    << <<"physics_constraints", << <<"density_positive", TRUE>> >> >>,
       <<"validation_rules",
            <<"physics_validation", "no_such_rule", "file_format",
              "parameter_ranges", "file_existence", "file_format">> >>,
       <<"required_files", <<dot_inp, input_dat>> >>,
       <<"file_types", <<dot_dat, dot_inp, dot_json>> >> >>

FieldDocs == {<<>>, RangesDoc, MixedDoc}

\* the validation_config.json create_validation_config writes
SampleDoc ==
    << <<"file_types", <<dot_dat, dot_inp, dot_txt, dot_csv, dot_json>> >>,
       <<"parameter_ranges",
            << <<temperature, <<Int_(200), Int_(800)>> >>,
               <<pressure, <<Int_(0), Int_(500000)>> >>,
               <<velocity, <<Int_(0), Int_(100)>> >>,
               <<density, <<Float(1, -1), Int_(10000)>> >>,
               <<youngs_modulus, <<Int_(1000000000), Float(5, 11)>> >>,
               <<poisson_ratio, <<Float(1, -1), Float(5, -1)>> >> >> >>,
       <<"required_files",
            <<input_dat, boundary_conditions_txt, material_properties_csv>> >>,
       <<"validation_rules",
            <<"file_existence", "file_format", "parameter_ranges",
              "cross_file_consistency", "physics_validation">> >>,
       <<"physics_constraints",
            << <<"density_positive", TRUE>>,
               <<"temperature_reasonable", TRUE>>,
               <<"pressure_limits", TRUE>> >> >> >>

Models == {"good_model", "bad_model", "nested_model", "flaky_model",
           "empty_model"}

\* the command lines: every configuration on the two-file model, and a few
\* configurations on every model and on a model path that does not exist
Runs ==
    {[config |-> c, output |-> o, model |-> "bad_model"] :
        c \in {NotGiven, GivenMissing, GivenBroken}
              \cup {Given(doc) : doc \in RuleListDocs \cup FieldDocs},
        o \in BOOLEAN}
    \cup
    {[config |-> c, output |-> TRUE, model |-> m] :
        c \in {NotGiven, Given(RangesDoc), Given(MixedDoc)},
        m \in Models \cup {"missing"}}

Init ==
    /\ pc = "main"
    /\ args \in Runs
    /\ config = NoConfig
    /\ rules = <<>>
    /\ error = "none"
    /\ model_data = NoModelData
    /\ pending = {}
    /\ report = NoReport
    /\ raised = {}
    /\ document = NoDocument
    /\ exit_code = -1
    /\ now = 0
    /\ rule_index = 0
    /\ calls = <<>>

\* main: os.path.exists(args.model_path)
CheckModelPath ==
    /\ pc = "main"
    /\ IF args.model \in Models
       THEN pc' = "construct" /\ UNCHANGED exit_code
       ELSE pc' = "returned" /\ exit_code' = 1
    /\ UNCHANGED <<args, config, rules, error, model_data, pending, report,
                   raised, document, now, rule_index, calls>>

\* ValidationEngine.__init__: _load_config, then _initialize_rules; an
\* exception of _load_config leaves main
Construct ==
    /\ pc = "construct"
    /\ LET loaded == _load_config(args.config)
       IN  IF loaded.raised
           THEN /\ pc' = "crashed"
                /\ error' = loaded.exc
                /\ UNCHANGED <<config, rules, calls>>
           ELSE /\ pc' = "validate"
                /\ config' = loaded.value
                /\ rules' = _initialize_rules(loaded.value)
                /\ UNCHANGED error
    /\ UNCHANGED <<args, model_data, pending, report, raised, document,
                   exit_code, now, rule_index, calls>>

\* validate_model up to the loop of _load_model_data: a new report, new
\* model data, and rglob's entries ahead
StartValidation ==
    /\ pc = "validate"
    /\ pc' = "load"
    /\ report' = ValidationReport(args.model, now)
    /\ model_data' = [files |-> <<>>, parameters |-> <<>>,
                      metadata |-> [file_count |-> 0, total_size |-> 0]]
    /\ pending' = entries_of(args.model)
    /\ raised' = {}
    /\ UNCHANGED <<args, config, rules, error, document, exit_code, now,
                   rule_index, calls>>

\* one turn of _load_model_data's loop: rglob yields an entry, in any
\* order, and the file system fails where it may for the entry
LoadEntry ==
    /\ pc = "load"
    /\ \E entry \in pending :
        \E failure \in {"ok"} \cup entry.faults :
            /\ model_data' = load_entry(model_data, entry, failure, config)
            /\ pending' = pending \ {entry}
    /\ UNCHANGED <<pc, args, config, rules, error, report, raised, document,
                   exit_code, now, rule_index, calls>>

\* _load_model_data returns; the rule loop starts at the first rule
LoadDone ==
    /\ pc = "load"
    /\ pending = {}
    /\ pc' = "rules"
    /\ rule_index' = 1
    /\ UNCHANGED <<args, config, rules, error, model_data, pending, report,
                   raised, document, exit_code, now, calls>>

\* the except clause with a result of severity INFO
error_result_info(rule, e) ==
    ValidationResult(rule.rule_id, FALSE, <<"Rule execution failed: ">> \o e,
                     "INFO", [exception |-> e])

\* the except clause of validate_model's loop: the result for a rule whose
\* validate raised e
error_result(rule, e) ==
    ValidationResult(rule.rule_id, FALSE, <<"Rule execution failed: ">> \o e,
                     "ERROR", [exception |-> e])

\* the body of validate_model's loop without its except clause's add_result
rule_step_drop(rep, rule, outcome) ==
    IF outcome.raised THEN rep ELSE add_result(rep, outcome.value)

\* the body of validate_model's loop: the report after a rule whose
\* validate returned or raised
rule_step(rep, rule, outcome) ==
    IF outcome.raised
    THEN add_result(rep, error_result(rule, outcome.exc))
    ELSE add_result(rep, outcome.value)

\* one turn of validate_model's loop; beside what the rule's own code
\* raises, any call may raise (a MemoryError, say)
RunRule ==
    /\ pc = "rules"
    /\ rule_index <= Len(rules)
    /\ \E fault \in BOOLEAN :
        LET rule == rules[rule_index]
            outcome == IF fault THEN Raised(<<"MemoryError">>)
                       ELSE validate(rule, model_data)
        IN  /\ report' = rule_step(report, rule, outcome)
            /\ raised' = IF outcome.raised THEN raised \cup {rule_index}
                         ELSE raised
    /\ rule_index' = rule_index + 1
    /\ UNCHANGED <<pc, args, config, rules, error, model_data, pending,
                   document, exit_code, now, calls>>

\* the end of validate_model: report.finalize(), and the report returned
FinalizeReport ==
    /\ pc = "rules"
    /\ rule_index > Len(rules)
    /\ \E d \in Elapsed :
        /\ now' = now + d
        /\ report' = finalize(report, now')
    /\ pc' = "output"
    /\ UNCHANGED <<args, config, rules, error, model_data, pending, raised,
                   document, exit_code, rule_index, calls>>

\* main: the report document, when --output is given
WriteOutput ==
    /\ pc = "output"
    /\ document' = IF args.output THEN json_dump_report(report) ELSE document
    /\ pc' = "summary"
    /\ UNCHANGED <<args, config, rules, error, model_data, pending, report,
                   raised, exit_code, now, rule_index, calls>>

\* main: the printed summary and the return value
Return ==
    /\ pc = "summary"
    /\ exit_code' = IF is_valid(report) THEN 0 ELSE 1
    /\ pc' = "returned"
    /\ UNCHANGED <<args, config, rules, error, model_data, pending, report,
                   raised, document, now, rule_index, calls>>

Next ==
    \/ CheckModelPath
    \/ Construct
    \/ StartValidation
    \/ LoadEntry
    \/ LoadDone
    \/ RunRule
    \/ FinalizeReport
    \/ WriteOutput
    \/ Return

Spec == Init /\ [][Next]_vars

\* the program is past the construction of the engine, which succeeded
Constructed == pc \in {"validate", "load", "rules", "output", "summary", "returned"}
                /\ args.model \in Models

\* validate_model has returned its report
ReportReturned == pc \in {"output", "summary", "returned"} /\ args.model \in Models

\* the construction of the engine has ended, with an engine or an exception
ConstructionEnded == Constructed \/ pc = "crashed"

\* the rule id of each known rule identifier
RuleIdOf(name) ==
    CASE name = "file_existence" -> "FILE_EXISTENCE"
      [] name = "file_format" -> "FILE_FORMAT"
      [] name = "parameter_ranges" -> "PARAMETER_RANGES"
      [] name = "cross_file_consistency" -> "CROSS_FILE_CONSISTENCY"
      [] name = "physics_validation" -> "PHYSICS_VALIDATION"

KnownNames == {"file_existence", "file_format", "parameter_ranges",
               "cross_file_consistency", "physics_validation"}

\* the recognized identifiers of the configured validation_rules, in order
RecognizedNames == SelectSeq(get(config, "validation_rules"), LAMBDA n : n \in KnownNames)

\* the rule ids of the report's results, in order
ResultIds == [i \in DOMAIN report.results |-> report.results[i].rule_id]

\* C4: a rule whose validate raises gets exactly one result, failed and of
\* severity ERROR, under its own rule id; the rules after it still run and
\* each adds its own result, whichever rules raise.
C4_RaisingRuleIsolated ==
    (pc = "rules" \/ ReportReturned) =>
        /\ Len(report.results) = (IF pc = "rules" THEN rule_index - 1 ELSE Len(rules))
        /\ raised \subseteq DOMAIN report.results
        /\ \A i \in DOMAIN report.results :
            /\ report.results[i].rule_id = rules[i].rule_id
            /\ i \in raised =>
                ~report.results[i].passed /\ report.results[i].severity = "ERROR"
            /\ i \notin raised =>
                report.results[i] = validate(rules[i], model_data).value

C4_Witness ==
    /\ pc = "returned"
    /\ Cardinality(raised) >= 2
    /\ \E i \in raised :
        /\ rules[i].class = "CrossFileConsistencyRule"
        /\ \E j \in DOMAIN rules : j > i /\ j \notin raised /\ report.results[j].passed

\* C5: no rule runs before model loading has completed, and the rule ids of
\* the report's results are the recognized identifiers of validation_rules
\* mapped to their rule ids, in the configured order.
C5_RulesRunInConfiguredOrder ==
    /\ pc \in {"validate", "load"} => report.results = <<>>
    /\ report.results # <<>> => pending = {}
    /\ pc = "rules" =>
        ResultIds = [i \in 1..(rule_index - 1) |-> RuleIdOf(RecognizedNames[i])]
    /\ ReportReturned =>
        ResultIds = [i \in DOMAIN RecognizedNames |-> RuleIdOf(RecognizedNames[i])]

C5_Witness ==
    /\ pc = "returned" /\ ReportReturned
    /\ get(config, "validation_rules")
         = <<"physics_validation", "no_such_rule", "file_format",
             "parameter_ranges", "file_existence", "file_format">>
    /\ ResultIds = <<"PHYSICS_VALIDATION", "FILE_FORMAT", "PARAMETER_RANGES",
                     "FILE_EXISTENCE", "FILE_FORMAT">>

\* the override names validation_rules with an identifier no rule has
HasUnknownName ==
    /\ args.config.given /\ args.config.exists /\ args.config.parses
    /\ has_key(args.config.doc, "validation_rules")
    /\ \E n \in Range(get(args.config.doc, "validation_rules")) : n \notin KnownNames

\* C6: an identifier of validation_rules that is not a known rule name is
\* skipped at construction: no error, no rule instance for it, no result
\* for it in the report, and the rules built are those of the list without it.
C6_UnknownNameSkipped ==
    (HasUnknownName /\ ConstructionEnded) =>
        /\ pc # "crashed"
        /\ error = "none"
        /\ Len(rules) = Len(RecognizedNames)
        /\ \A i \in DOMAIN rules :
            /\ rules[i].class # "ValidationRule"
            /\ rules[i].rule_id = RuleIdOf(RecognizedNames[i])
        /\ LET others == _initialize_rules(set(config, "validation_rules", RecognizedNames))
           IN  /\ Len(rules) = Len(others)
               /\ \A i \in DOMAIN rules :
                    /\ rules[i].class = others[i].class
                    /\ rules[i].severity = others[i].severity
                    /\ rules[i].rule_id = others[i].rule_id
        /\ \A i \in DOMAIN report.results :
            report.results[i].rule_id \in {RuleIdOf(n) : n \in KnownNames}
        /\ ReportReturned => Len(report.results) = Len(RecognizedNames)

C6_Witness ==
    /\ pc = "returned" /\ ReportReturned
    /\ HasUnknownName
    /\ Len(get(config, "validation_rules")) = 6
    /\ get(config, "validation_rules")[2] = "no_such_rule"
    /\ Len(rules) = 5
    /\ Len(report.results) = 5

\* the override document the engine was built with, <<>> when it read none
OverrideDoc ==
    IF args.config.given /\ args.config.exists /\ args.config.parses
    THEN args.config.doc ELSE <<>>

\* C7: the configuration is the default with each top-level field the
\* override names replaced wholesale by the override's value; the fields it
\* does not name keep their defaults.
C7_ShallowMerge ==
    Constructed =>
        /\ Range(keys(config)) = Range(keys(default_config)) \cup Range(keys(OverrideDoc))
        /\ \A k \in Range(keys(config)) :
            get(config, k) = IF has_key(OverrideDoc, k) THEN get(OverrideDoc, k)
                             ELSE get(default_config, k)

C7_Witness ==
    /\ Constructed
    /\ has_key(OverrideDoc, "parameter_ranges")
    /\ ~has_key(OverrideDoc, "required_files")
    /\ has_key(get(default_config, "parameter_ranges"), pressure)
    /\ ~has_key(get(config, "parameter_ranges"), pressure)
    /\ get(config, "required_files") = get(default_config, "required_files")

\* C8: with an override path whose document does not parse, construction
\* fails with the parser's exception leaving main: no engine, no defaults,
\* no report; with no path given, construction succeeds with the defaults.
C8_UnparsableOverrideFails ==
    /\ (args.config.given /\ args.config.exists /\ ~args.config.parses
            /\ args.model \in Models /\ pc \notin {"main", "construct"}) =>
        /\ pc = "crashed"
        /\ error = "JSONDecodeError"
        /\ config = NoConfig
        /\ rules = <<>>
        /\ report = NoReport
        /\ exit_code = -1
    /\ (~args.config.given /\ args.model \in Models
            /\ pc \notin {"main", "construct"}) =>
        /\ Constructed
        /\ error = "none"
        /\ config = default_config

C8_Witness ==
    /\ pc = "crashed"
    /\ args.config.given /\ args.config.exists /\ ~args.config.parses
    /\ error = "JSONDecodeError"

\* the command lines of the runs checked for termination
LiveRuns ==
    {[config |-> c, output |-> o, model |-> m] :
        c \in {NotGiven, GivenBroken, Given(MixedDoc)},
        o \in BOOLEAN,
        m \in {"bad_model", "flaky_model", "missing"}}

InitLive ==
    /\ pc = "main"
    /\ args \in LiveRuns
    /\ config = NoConfig
    /\ rules = <<>>
    /\ error = "none"
    /\ model_data = NoModelData
    /\ pending = {}
    /\ report = NoReport
    /\ raised = {}
    /\ document = NoDocument
    /\ exit_code = -1
    /\ now = 0
    /\ rule_index = 0
    /\ calls = <<>>

\* the steps of main other than a turn of the rule loop
OtherStep ==
    \/ CheckModelPath
    \/ Construct
    \/ StartValidation
    \/ LoadEntry
    \/ LoadDone
    \/ FinalizeReport
    \/ WriteOutput
    \/ Return

\* a turn of validate_model's rule loop, seen by its index alone: the steps
\* of Next that advance rule_index within the loop are those of RunRule
RuleTurn ==
    /\ pc = "rules"
    /\ rule_index <= Len(rules)
    /\ rule_index' = rule_index + 1

\* the program with its steps taken as long as one is possible: main runs
\* in one thread and each step is a finite computation
SpecLive ==
    InitLive /\ [][Next]_vars /\ WF_vars(OtherStep) /\ WF_rule_index(RuleTurn)

\* C30: a call of validate_model returns, whether its rules pass, fail or
\* raise; the report it returns has end_time set and duration_seconds in
\* its summary, and finalize runs once every rule has its result in the
\* report, not before.
C30_ValidateModelReturns ==
    /\ (pc = "validate") ~> ReportReturned
    /\ [](pc \in {"validate", "load", "rules"} =>
            /\ report.end_time = <<>>
            /\ "duration_seconds" \notin DOMAIN report.summary)
    /\ [](ReportReturned =>
            /\ report.end_time # <<>>
            /\ "duration_seconds" \in DOMAIN report.summary
            /\ Len(report.results) = Len(rules))
    /\ [][report'.end_time # report.end_time =>
            /\ pc = "rules"
            /\ Len(report.results) = Len(rules)
            /\ report'.results = report.results]_vars

C30_Witness ==
    /\ pc = "returned" /\ ReportReturned
    /\ report.end_time # <<>>
    /\ "duration_seconds" \in DOMAIN report.summary
    /\ raised # {}
    /\ \E i \in DOMAIN report.results : report.results[i].passed
    /\ \E i \in DOMAIN report.results \ raised : ~report.results[i].passed

\* the places of validation_rules that hold the known rule name n
PlacesOf(n) ==
    {i \in DOMAIN get(config, "validation_rules") :
        get(config, "validation_rules")[i] = n}

\* the places of the report's results that carry the rule id of name n
ResultsOf(n) == {i \in DOMAIN report.results : ResultIds[i] = RuleIdOf(n)}

\* C27: a returned report holds one result per recognized entry of
\* validation_rules, repetitions counted: total_rules is the number of
\* recognized entries, a name listed k times has k results under its rule
\* id, and a list without a recognized name gives a report with no result
\* that is valid.
C27_OneResultPerRecognizedEntry ==
    ReportReturned =>
        LET recognized == UNION {PlacesOf(n) : n \in KnownNames}
        IN  /\ report.summary.total_rules = Cardinality(recognized)
            /\ Len(report.results) = Cardinality(recognized)
            /\ \A n \in KnownNames :
                    Cardinality(ResultsOf(n)) = Cardinality(PlacesOf(n))
            /\ recognized = {} =>
                    /\ report.results = <<>>
                    /\ report.summary.total_rules = 0
                    /\ is_valid(report)

C27_Witness ==
    /\ pc = "returned" /\ ReportReturned
    /\ get(config, "validation_rules") = <<"file_existence", "file_existence">>
    /\ ResultIds = <<"FILE_EXISTENCE", "FILE_EXISTENCE">>
    /\ report.summary.total_rules = 2

\* C26: in a returned report failed == errors + warnings: a result of
\* severity INFO has passed, a failed result of a rule that returned has the
\* rule's own severity, ERROR or WARNING, and the result made for a rule
\* that raised is ERROR.
C26_FailedIsErrorsPlusWarnings ==
    ReportReturned =>
        /\ report.summary.failed
              = report.summary.errors + report.summary.warnings
        /\ report.summary.errors = Len(get_critical_errors(report))
        /\ report.summary.warnings = Len(get_warnings(report))
        /\ \A i \in DOMAIN report.results :
            LET r == report.results[i]
            IN  /\ r.severity = "INFO" => r.passed
                /\ ~r.passed =>
                    /\ r.severity \in {"ERROR", "WARNING"}
                    /\ r.severity = IF i \in raised THEN "ERROR"
                                    ELSE rules[i].severity

C26_Witness ==
    /\ pc = "returned" /\ ReportReturned
    /\ raised # {}
    /\ report.summary.errors >= 2
    /\ report.summary.warnings >= 1
    /\ report.summary.passed >= 1
    /\ report.summary.failed = report.summary.errors + report.summary.warnings

\* C29: with an override path at which no file exists, construction succeeds
\* without an error and the configuration and the rules are those of an
\* engine constructed with no path.
C29_MissingOverrideIsDefault ==
    (args.config.given /\ ~args.config.exists /\ args.model \in Models
            /\ pc \notin {"main", "construct"}) =>
        /\ Constructed
        /\ error = "none"
        /\ config = default_config
        /\ config = _load_config(NotGiven).value
        /\ rules = _initialize_rules(default_config)

C29_Witness ==
    /\ args.config = GivenMissing
    /\ pc = "returned"
    /\ error = "none"
    /\ config = default_config
    /\ report.summary.total_rules = 5

\* the report document has been written
Written == pc \in {"summary", "returned"} /\ args.model \in Models /\ args.output

\* C9: the summary read back from the written document equals the summary
\* of the report in memory, the duration included, and the document's
\* is_valid is report.is_valid().
C9_DocumentRoundTrip ==
    Written =>
        /\ report.end_time # <<>>
        /\ DOMAIN json_load_report(document).summary
             = {"total_rules", "passed", "failed", "errors", "warnings",
                "duration_seconds"}
        /\ json_load_report(document).summary = report.summary
        /\ json_load_report(document).is_valid = is_valid(report)

C9_Witness ==
    /\ Written
    /\ document.summary.duration_seconds = <<"1", ".", "5", "e", "-", "0", "5">>
    /\ document.summary.total_rules = <<"5">>
    /\ report.summary.errors = 4
    /\ document.is_valid = <<"false">>

(***************************************************************************)
(* SpecReport: a caller of the ValidationReport alone.  It builds a report *)
(* and adds any results, in any order; it may finalize it at any point.    *)
(***************************************************************************)
\* every result a caller can build: passed or failed, of any severity
AnyResults ==
    {ValidationResult(id, p, <<>>, s, <<>>) :
        id \in {"RULE_A"}, p \in BOOLEAN, s \in Severities}

InitReport ==
    /\ pc = "report"
    /\ args = NoArgs
    /\ config = NoConfig
    /\ rules = <<>>
    /\ error = "none"
    /\ model_data = NoModelData
    /\ pending = {}
    /\ report = ValidationReport("model", 0)
    /\ raised = {}
    /\ document = NoDocument
    /\ exit_code = -1
    /\ now = 0
    /\ rule_index = 0
    /\ calls = <<>>

\* report.add_result(result)
ReportAddResult ==
    /\ pc = "report"
    /\ Len(report.results) < MaxResults
    /\ \E result \in AnyResults : report' = add_result(report, result)
    /\ UNCHANGED <<pc, args, config, rules, error, model_data, pending,
                   raised, document, exit_code, now, rule_index, calls>>

\* report.finalize()
ReportFinalize ==
    /\ pc = "report"
    /\ report.end_time = <<>>
    /\ \E d \in Elapsed :
        /\ now' = now + d
        /\ report' = finalize(report, now')
    /\ UNCHANGED <<pc, args, config, rules, error, model_data, pending,
                   raised, document, exit_code, rule_index, calls>>

NextReport == ReportAddResult \/ ReportFinalize

SpecReport == InitReport /\ [][NextReport]_vars

\* the indices of the failed results of the given severity
FailedOf(rep, severity) ==
    {i \in DOMAIN rep.results :
        ~rep.results[i].passed /\ rep.results[i].severity = severity}

\* C1: after every add_result, from a fresh report and for any sequence of
\* results, passed + failed = total_rules = len(results).
C1_CountsAddUp ==
    pc = "report" =>
        /\ report.summary.passed + report.summary.failed = report.summary.total_rules
        /\ report.summary.total_rules = Len(report.results)

C1_Witness ==
    /\ pc = "report"
    /\ Len(report.results) = 3
    /\ report.summary.passed = 1
    /\ report.summary.failed = 2

\* C2: errors is the number of failed ERROR results and warnings the number
\* of failed WARNING results; a failed INFO result and a passed result of
\* any severity count in neither.
C2_ErrorsAndWarningsCount ==
    pc = "report" =>
        /\ report.summary.errors = Cardinality(FailedOf(report, "ERROR"))
        /\ report.summary.warnings = Cardinality(FailedOf(report, "WARNING"))
        /\ report.summary.errors = Len(get_critical_errors(report))
        /\ report.summary.warnings = Len(get_warnings(report))

C2_Witness ==
    /\ pc = "report"
    /\ \E i, j, k, l \in DOMAIN report.results :
        /\ ~report.results[i].passed /\ report.results[i].severity = "INFO"
        /\ report.results[j].passed /\ report.results[j].severity = "ERROR"
        /\ ~report.results[k].passed /\ report.results[k].severity = "ERROR"
        /\ ~report.results[l].passed /\ report.results[l].severity = "WARNING"
    /\ report.summary.errors = 1
    /\ report.summary.warnings = 1

\* the last step added a failed WARNING result to the report
AddedFailedWarning ==
    /\ Len(report'.results) = Len(report.results) + 1
    /\ ~report'.results[Len(report'.results)].passed
    /\ report'.results[Len(report'.results)].severity = "WARNING"

\* C3: is_valid() is true exactly when errors = 0, that is exactly when no
\* failed ERROR result was added, and adding a failed WARNING result never
\* changes it.
C3_ValidIffNoErrors ==
    /\ [](pc = "report" =>
            /\ is_valid(report) = (report.summary.errors = 0)
            /\ is_valid(report) = (FailedOf(report, "ERROR") = {}))
    /\ [][AddedFailedWarning => is_valid(report') = is_valid(report)]_vars

C3_Witness ==
    /\ pc = "report"
    /\ ~is_valid(report)
    /\ Cardinality(FailedOf(report, "WARNING")) >= 2
    /\ Cardinality(FailedOf(report, "ERROR")) = 1

(***************************************************************************)
(* SpecExistence: an engine configured with a required_files list and the  *)
(* file_existence rule alone loads a directory and runs the rule.          *)
(***************************************************************************)
\* the names the generated required_files lists are made of
RequiredNames ==
    {input_dat, boundary_conditions_txt, <<"A", "b">>,
     <<"I", "N", "P", "U", "T">>, <<"x", "a", "b", ".", "d", "a", "t">>, <<>>}

\* the required_files lists: the generated ones and the default one
RequiredLists ==
    SeqsUpTo(RequiredNames, MaxRequired) \cup {get(default_config, "required_files")}

\* an empty file of the directory at the relative path
existence_entry(path) ==
    [path |-> path, is_file |-> TRUE, encoding |-> "utf-8", content |-> <<>>,
     size |-> 0, parameters |-> <<>>, faults |-> {}]

\* the files a directory may hold; the last has no supported suffix
ExistencePaths ==
    {input_dat, boundary_conditions_txt, material_properties_csv,
     <<"x", "a", "B", ".", "d", "a", "t">>,
     <<"s", "u", "b", "/", "I", "n", "p", "u", "t", ".", "d", "a", "t">>,
     <<"a", "b", ".", "l", "o", "g">>}

\* the override of an engine with the required list and the one rule
ExistenceDoc(required) ==
    << <<"required_files", required>>,
       <<"validation_rules", <<"file_existence">> >> >>

InitExistence ==
    /\ pc = "existence_load"
    /\ \E required \in RequiredLists :
        /\ args = [config |-> Given(ExistenceDoc(required)), output |-> FALSE,
                   model |-> "none"]
        /\ config = _load_config(args.config).value
        /\ rules = _initialize_rules(config)
    /\ \E paths \in SUBSET ExistencePaths :
        /\ Cardinality(paths) <= MaxPresent
        /\ pending = {existence_entry(path) : path \in paths}
    /\ error = "none"
    /\ model_data = NoModelData
    /\ report = ValidationReport("", 0)
    /\ raised = {}
    /\ document = NoDocument
    /\ exit_code = -1
    /\ now = 0
    /\ rule_index = 1
    /\ calls = <<>>

\* one turn of _load_model_data's loop
ExistenceLoad ==
    /\ pc = "existence_load"
    /\ \E entry \in pending :
        /\ model_data' = load_entry(model_data, entry, "ok", config)
        /\ pending' = pending \ {entry}
    /\ UNCHANGED <<pc, args, config, rules, error, report, raised, document,
                   exit_code, now, rule_index, calls>>

\* the turn of validate_model's loop for the file_existence rule
ExistenceValidate ==
    /\ pc = "existence_load"
    /\ pending = {}
    /\ report' = rule_step(report, rules[rule_index],
                           validate(rules[rule_index], model_data))
    /\ rule_index' = rule_index + 1
    /\ pc' = "existence_done"
    /\ UNCHANGED <<args, config, rules, error, model_data, pending, raised,
                   document, exit_code, now, calls>>

NextExistence == ExistenceLoad \/ ExistenceValidate

SpecExistence == InitExistence /\ [][NextExistence]_vars

\* c and d are the same character or the two cases of one letter
SameLetter(c, d) ==
    \/ c = d
    \/ \E i \in DOMAIN UpperChars : {c, d} = {UpperChars[i], LowerChars[i]}

\* name occurs in path at some offset, letters compared without case
OccursIn(name, path) ==
    \E offset \in 0..(Len(path) - Len(name)) :
        \A k \in DOMAIN name : SameLetter(name[k], path[offset + k])

\* the required name occurs in one of the loaded relative paths
Matched(name) ==
    \E path \in Range(keys(model_data.files)) : OccursIn(name, path)

\* the required names no loaded path matches, in the order of the list
Unmatched == SelectSeq(get(config, "required_files"), LAMBDA name : ~Matched(name))

\* C10: the file_existence rule passes exactly when every required name
\* occurs, without regard to case, inside some loaded relative path;
\* otherwise its result is failed, of severity ERROR, and its message and
\* its details name exactly the unmatched required names in list order.
C10_ExistenceRule ==
    pc = "existence_done" =>
        LET result == report.results[1]
        IN  /\ Len(report.results) = 1
            /\ result.rule_id = "FILE_EXISTENCE"
            /\ result.passed = (\A name \in Range(get(config, "required_files")) :
                                    Matched(name))
            /\ result.passed = (Unmatched = <<>>)
            /\ ~result.passed =>
                /\ result.severity = "ERROR"
                /\ result.details.missing_files = Unmatched
                /\ result.message
                     = <<"Missing required files: ">> \o join(<<", ">>, Unmatched)

C10_Witness ==
    /\ pc = "existence_done"
    /\ get(config, "required_files")
         = <<input_dat, boundary_conditions_txt, material_properties_csv>>
    /\ Range(keys(model_data.files)) = {input_dat, material_properties_csv}
    /\ ~report.results[1].passed
    /\ report.results[1].details.missing_files = <<boundary_conditions_txt>>
    /\ report.results[1].message
         = <<"Missing required files: ">> \o boundary_conditions_txt

(***************************************************************************)
(* SpecRange: an engine with the parameter_ranges rule alone; parameters   *)
(* are extracted into the model data one at a time, a later value of a     *)
(* name replacing the earlier one, and the rule runs on what was extracted.*)
(***************************************************************************)
\* the (name, value) pairs a file may yield: values below, at, within and
\* above the default range of the name, and a name with no default range
RangeInputs ==
    {<<temperature, Float(1995, -1)>>, <<temperature, Float(200, 0)>>,
     <<temperature, Float(4, 0)>>, <<temperature, Float(800, 0)>>,
     <<temperature, Float(8005, -1)>>,
     <<density, Float(-25, -1)>>, <<density, Float(1, -1)>>,
     <<density, Float(10000, 0)>>, <<density, Float(100005, -1)>>,
     <<velocity, Float(0, 0)>>, <<velocity, Float(100, 0)>>,
     <<velocity, Float(1005, -1)>>,
     <<viscosity, Float(-25, -1)>>}

\* the overrides of the engine: none, and one with a single range
RangeConfigs == {NotGiven, Given(RangesDoc)}

InitRange ==
    /\ pc = "range_load"
    /\ \E c \in RangeConfigs :
        /\ args = [config |-> c, output |-> FALSE, model |-> "none"]
        /\ config = set(_load_config(c).value, "validation_rules",
                        <<"parameter_ranges">>)
        /\ rules = _initialize_rules(config)
    /\ pending = {}
    /\ error = "none"
    /\ model_data = NoModelData
    /\ report = ValidationReport("", 0)
    /\ raised = {}
    /\ document = NoDocument
    /\ exit_code = -1
    /\ now = 0
    /\ rule_index = 1
    /\ calls = <<>>

\* _load_model_data: model_data['parameters'].update(parameters)
RangeExtract ==
    /\ pc = "range_load"
    /\ \E kv \in RangeInputs :
        model_data' = [model_data EXCEPT !.parameters = update(@, <<kv>>)]
    /\ UNCHANGED <<pc, args, config, rules, error, pending, report, raised,
                   document, exit_code, now, rule_index, calls>>

\* the turn of validate_model's loop for the parameter_ranges rule
RangeValidate ==
    /\ pc = "range_load"
    /\ report' = rule_step(report, rules[rule_index],
                           validate(rules[rule_index], model_data))
    /\ rule_index' = rule_index + 1
    /\ pc' = "range_done"
    /\ UNCHANGED <<args, config, rules, error, model_data, pending, raised,
                   document, exit_code, now, calls>>

NextRange == RangeExtract \/ RangeValidate

SpecRange == InitRange /\ [][NextRange]_vars

\* the configured range of the name
RangeOf(name) == get(get(config, "parameter_ranges"), name)

\* the extracted parameters that have a range and lie outside it
OutOfRange ==
    {i \in DOMAIN model_data.parameters :
        LET name == model_data.parameters[i][1]
            value == model_data.parameters[i][2]
        IN  /\ has_key(get(config, "parameter_ranges"), name)
            /\ Less(value, RangeOf(name)[1]) \/ Less(RangeOf(name)[2], value)}

\* the extracted value of the name equals v
ExtractedAs(name, v) ==
    /\ has_key(model_data.parameters, name)
    /\ ~Less(get(model_data.parameters, name), v)
    /\ ~Less(v, get(model_data.parameters, name))

\* C11: the parameter_ranges rule fails exactly when an extracted parameter
\* with a configured range is below its min or above its max; a value at
\* either end is no violation; each violation is tagged below_minimum when
\* the value is below min and above_maximum otherwise; a parameter with no
\* configured range never causes a violation.
C11_RangeRule ==
    pc = "range_done" =>
        LET result == report.results[1]
            parameters == model_data.parameters
            violations == IF result.passed THEN <<>> ELSE result.details.violations
        IN  /\ result.passed = (OutOfRange = {})
            /\ ~result.passed => result.severity = "ERROR"
            /\ Len(violations) = Cardinality(OutOfRange)
            /\ \A i \in OutOfRange :
                \E j \in DOMAIN violations :
                    /\ violations[j].parameter = parameters[i][1]
                    /\ violations[j].value = parameters[i][2]
                    /\ violations[j].violation_type
                         = IF Less(parameters[i][2], RangeOf(parameters[i][1])[1])
                           THEN "below_minimum" ELSE "above_maximum"
            /\ \A j \in DOMAIN violations :
                /\ has_key(get(config, "parameter_ranges"), violations[j].parameter)
                /\ ~ExtractedAs(violations[j].parameter,
                                RangeOf(violations[j].parameter)[1])
                /\ ~ExtractedAs(violations[j].parameter,
                                RangeOf(violations[j].parameter)[2])

C11_Witness ==
    /\ pc = "range_done"
    /\ get(config, "parameter_ranges") = get(default_config, "parameter_ranges")
    /\ ExtractedAs(density, Float(-25, -1))
    /\ ExtractedAs(temperature, Float(8005, -1))
    /\ ExtractedAs(velocity, Int_(100))
    /\ ExtractedAs(viscosity, Float(-25, -1))
    /\ ~report.results[1].passed
    /\ Len(report.results[1].details.violations) = 2
    /\ \E j \in 1..2 :
        /\ report.results[1].details.violations[j].parameter = density
        /\ report.results[1].details.violations[j].violation_type = "below_minimum"
    /\ \E j \in 1..2 :
        /\ report.results[1].details.violations[j].parameter = temperature
        /\ report.results[1].details.violations[j].violation_type = "above_maximum"
    /\ str_in(density \o <<"=">> \o <<"-", "2", ".", "5">>, report.results[1].message)

(***************************************************************************)
(* SpecFormat: an engine with the file_format rule alone loads a directory *)
(* of small files and runs the rule.                                       *)
(***************************************************************************)
\* a file of the directory: its relative path, encoding, content and the
\* failures the file system may answer with; the contents yield no parameter
format_entry(path, encoding, content, faults) ==
    [path |-> path, is_file |-> TRUE, encoding |-> encoding,
     content |-> content, size |-> Len(content), parameters |-> <<>>,
     faults |-> faults]

a_txt == <<"a", ".", "t", "x", "t">>
s_txt == <<"s", ".", "t", "x", "t">>
l_txt == <<"l", ".", "t", "x", "t">>
e_txt == <<"e", ".", "t", "x", "t">>
c_csv == <<"c", ".", "c", "s", "v">>
n_csv == <<"n", ".", "c", "s", "v">>
j_json == <<"j", ".", "j", "s", "o", "n">>
k_json == <<"k", ".", "j", "s", "o", "n">>
o_dat == <<"o", ".", "d", "a", "t">>
t_dat == <<"t", ".", "d", "a", "t">>
i_inp == <<"i", ".", "i", "n", "p">>

\* the files a directory may hold: s.txt holds the text [BINARY_FILE];
\* l.txt is a Latin-1 file whose second open may fail; t.dat is one line
\* with its line terminator, o.dat one line without
FormatEntries ==
    {format_entry(a_txt, "utf-8", <<"x">>, {}),
     format_entry(s_txt, "utf-8", BINARY_FILE, {}),
     format_entry(l_txt, "latin-1", <<"<e9>">>, {"reopen"}),
     format_entry(e_txt, "utf-8", <<>>, {}),
     format_entry(c_csv, "utf-8", <<"a", ",", "b">>, {}),
     format_entry(n_csv, "utf-8", <<"a", "b">>, {}),
     format_entry(j_json, "utf-8", <<"{", "}">>, {}),
     format_entry(k_json, "utf-8", <<"{">>, {}),
     format_entry(o_dat, "utf-8", <<"x">>, {}),
     format_entry(t_dat, "utf-8", <<"x", "\n">>, {}),
     format_entry(i_inp, "utf-8", <<"x", "\n", "y">>, {})}

InitFormat ==
    /\ pc = "format_load"
    /\ args = NoArgs
    /\ config = set(default_config, "validation_rules", <<"file_format">>)
    /\ rules = _initialize_rules(config)
    /\ \E entries \in SUBSET FormatEntries :
        /\ Cardinality(entries) <= MaxPresent
        /\ pending = entries
    /\ error = "none"
    /\ model_data = NoModelData
    /\ report = ValidationReport("", 0)
    /\ raised = {}
    /\ document = NoDocument
    /\ exit_code = -1
    /\ now = 0
    /\ rule_index = 1
    /\ calls = <<>>

\* one turn of _load_model_data's loop
FormatLoad ==
    /\ pc = "format_load"
    /\ \E entry \in pending :
        \E failure \in {"ok"} \cup entry.faults :
            /\ model_data' = load_entry(model_data, entry, failure, config)
            /\ pending' = pending \ {entry}
    /\ UNCHANGED <<pc, args, config, rules, error, report, raised, document,
                   exit_code, now, rule_index, calls>>

\* the turn of validate_model's loop for the file_format rule
FormatValidate ==
    /\ pc = "format_load"
    /\ pending = {}
    /\ report' = rule_step(report, rules[rule_index],
                           validate(rules[rule_index], model_data))
    /\ rule_index' = rule_index + 1
    /\ pc' = "format_done"
    /\ UNCHANGED <<args, config, rules, error, model_data, pending, raised,
                   document, exit_code, now, calls>>

NextFormat == FormatLoad \/ FormatValidate

SpecFormat == InitFormat /\ [][NextFormat]_vars

\* the loaded content of the loaded file at index i
ContentAt(i) == model_data.files[i][2].content

\* the relative path of the loaded file at index i
PathAt(i) == model_data.files[i][1]

\* the content is empty or is the binary sentinel
Unreadable(content) == content = <<>> \/ content = BINARY_FILE

\* the loaded files with a format error: empty or sentinel content, a .csv
\* without a comma, a .json that does not parse, a .dat/.inp whose content
\* holds no line terminator
Offending ==
    {i \in DOMAIN model_data.files :
        \/ Unreadable(ContentAt(i))
        \/ endswith(PathAt(i), dot_csv) /\ "," \notin Range(ContentAt(i))
        \/ endswith(PathAt(i), dot_json) /\ ~is_json(ContentAt(i))
        \/ /\ endswith(PathAt(i), dot_dat) \/ endswith(PathAt(i), dot_inp)
           /\ "\n" \notin Range(ContentAt(i))}

\* the entries of the failed result's details, none when the rule passed
FormatErrors ==
    IF report.results[1].passed THEN <<>>
    ELSE report.results[1].details.format_errors

\* the entries of the details that name the loaded file at index i
EntriesFor(i) ==
    {j \in DOMAIN FormatErrors :
        /\ Len(FormatErrors[j]) > Len(PathAt(i))
        /\ SubSeq(FormatErrors[j], 1, Len(PathAt(i))) = PathAt(i)}

\* one result for the model, failed with severity ERROR exactly when some
\* loaded file has a format error, with one entry per offending file
OneResultListsOffending ==
    /\ Len(report.results) = 1
    /\ report.results[1].rule_id = "FILE_FORMAT"
    /\ report.results[1].passed = (Offending = {})
    /\ ~report.results[1].passed => report.results[1].severity = "ERROR"
    /\ Len(FormatErrors) = Cardinality(Offending)
    /\ \A i \in DOMAIN model_data.files :
        Cardinality(EntriesFor(i)) = IF i \in Offending THEN 1 ELSE 0

Lines(content) ==
    Cardinality({k \in DOMAIN content : content[k] = "\n"})
    + (IF content # <<>> /\ content[Len(content)] # "\n" THEN 1 ELSE 0)

\* C13: every loaded .dat or .inp file whose content has fewer than two
\* lines has an entry among the format errors, a file of one line followed
\* by a line terminator included.
C13_ShortFileReported ==
    pc = "format_done" =>
        \A i \in DOMAIN model_data.files :
            (/\ endswith(PathAt(i), dot_dat) \/ endswith(PathAt(i), dot_inp)
             /\ Lines(ContentAt(i)) < 2) =>
                Cardinality(EntriesFor(i)) = 1

(***************************************************************************)
(* SpecCross: an engine with the cross_file_consistency rule alone loads a *)
(* directory of one-parameter files and runs the rule.                     *)
(***************************************************************************)
temp_in == <<"t", "e", "m", "p", "_", "i", "n">>
outlet_temp == <<"o", "u", "t", "l", "e", "t", "_", "t", "e", "m", "p">>

\* a file holding the line `name = value`, from which _extract_parameters
\* takes the one parameter
cross_entry(path, name, value_text, value) ==
    [path |-> path, is_file |-> TRUE, encoding |-> "utf-8",
     content |-> name \o <<" ", "=", " ">> \o value_text \o <<"\n">>,
     size |-> Len(name) + Len(value_text) + 4,
     parameters |-> << <<name, value>> >>, faults |-> {}]

\* the files a directory may hold: temperatures 50 and more than 50 apart,
\* a parameter that is no temperature, and a file with no parameter
CrossEntries ==
    {cross_entry(a_txt, temperature, <<"3", "0", "0">>, Float(300, 0)),
     cross_entry(c_csv, temp_in, <<"3", "5", "0">>, Float(350, 0)),
     cross_entry(o_dat, temp_in, <<"3", "5", "0", ".", "5">>, Float(3505, -1)),
     cross_entry(i_inp, outlet_temp, <<"3", "6", "0">>, Float(360, 0)),
     cross_entry(t_dat, pressure, <<"9", "0", "0">>, Float(900, 0)),
     format_entry(j_json, "utf-8", <<"{", "}">>, {})}

InitCross ==
    /\ pc = "cross_load"
    /\ args = NoArgs
    /\ config = set(default_config, "validation_rules", <<"cross_file_consistency">>)
    /\ rules = _initialize_rules(config)
    /\ pending \in SUBSET CrossEntries
    /\ error = "none"
    /\ model_data = NoModelData
    /\ report = ValidationReport("", 0)
    /\ raised = {}
    /\ document = NoDocument
    /\ exit_code = -1
    /\ now = 0
    /\ rule_index = 1
    /\ calls = <<>>

\* one turn of _load_model_data's loop
CrossLoad ==
    /\ pc = "cross_load"
    /\ \E entry \in pending :
        /\ model_data' = load_entry(model_data, entry, "ok", config)
        /\ pending' = pending \ {entry}
    /\ UNCHANGED <<pc, args, config, rules, error, report, raised, document,
                   exit_code, now, rule_index, calls>>

\* the turn of validate_model's loop for the cross_file_consistency rule
CrossValidate ==
    /\ pc = "cross_load"
    /\ pending = {}
    /\ report' = rule_step(report, rules[rule_index],
                           validate(rules[rule_index], model_data))
    /\ rule_index' = rule_index + 1
    /\ pc' = "cross_done"
    /\ UNCHANGED <<args, config, rules, error, model_data, pending, raised,
                   document, exit_code, now, calls>>

NextCross == CrossLoad \/ CrossValidate

SpecCross == InitCross /\ [][NextCross]_vars

\* the extracted parameters whose name contains "temp"
TempNamed ==
    {i \in DOMAIN model_data.parameters : OccursIn(temp, model_data.parameters[i][1])}

\* two temperature-named parameters are more than 50 apart
TemperatureSpread ==
    \E i, j \in TempNamed :
        Less(Int_(50), Minus(model_data.parameters[i][2], model_data.parameters[j][2]))

\* fewer than three files were loaded
TooFewFiles == Len(model_data.files) < 3

\* the issues of the failed result's details, none when the rule passed
Issues ==
    IF report.results[1].passed THEN <<>> ELSE report.results[1].details.issues

\* C14: the cross_file_consistency rule fails, with severity WARNING,
\* exactly when two temperature-named parameters are more than 50 apart or
\* fewer than 3 files were loaded; it lists one issue for each of the two
\* that triggers; a spread of exactly 50 and exactly 3 files trigger nothing.
C14_CrossFileRule ==
    pc = "cross_done" =>
        /\ Len(report.results) = 1
        /\ report.results[1].passed = ~(TemperatureSpread \/ TooFewFiles)
        /\ ~report.results[1].passed => report.results[1].severity = "WARNING"
        /\ Len(Issues) = (IF TemperatureSpread THEN 1 ELSE 0)
                         + (IF TooFewFiles THEN 1 ELSE 0)
        /\ TemperatureSpread <=>
            \E k \in DOMAIN Issues :
                Issues[k][1] = "Temperature values vary significantly: "
        /\ TooFewFiles <=> \E k \in DOMAIN Issues : Issues[k][1] = "Only "

C14_Witness ==
    /\ pc = "cross_done"
    /\ Len(model_data.files) = 2
    /\ model_data.parameters = << <<temperature, Float(300, 0)>>,
                                  <<temp_in, Float(3505, -1)>> >>
    /\ ~report.results[1].passed
    /\ report.results[1].severity = "WARNING"
    /\ Len(report.results[1].details.issues) = 2

(***************************************************************************)
(* SpecPhysics: an engine with the physics_validation rule alone;          *)
(* parameters are extracted into the model data one at a time and the rule *)
(* runs on what was extracted.                                             *)
(***************************************************************************)
\* the (name, value) pairs a file may yield.  With temperature 50 and
\* pressure 100 the expected ratio is 2: densities 100 and 300 are exactly
\* half of it away, 99 and 301 more, 200 not at all.
PhysicsInputs ==
    {<<temperature, Float(-5, 0)>>, <<temperature, Float(0, 0)>>,
     <<temperature, Float(5, 0)>>, <<temperature, Float(10, 0)>>,
     <<temperature, Float(50, 0)>>,
     <<pressure, Float(-1, 0)>>, <<pressure, Float(0, 0)>>,
     <<pressure, Float(100, 0)>>,
     <<density, Float(-25, -1)>>, <<density, Float(0, 0)>>,
     <<density, Float(99, 0)>>, <<density, Float(100, 0)>>,
     <<density, Float(200, 0)>>, <<density, Float(300, 0)>>,
     <<density, Float(301, 0)>>}

InitPhysics ==
    /\ pc = "physics_load"
    /\ args = NoArgs
    /\ config = set(default_config, "validation_rules", <<"physics_validation">>)
    /\ rules = _initialize_rules(config)
    /\ pending = {}
    /\ error = "none"
    /\ model_data = NoModelData
    /\ report = ValidationReport("", 0)
    /\ raised = {}
    /\ document = NoDocument
    /\ exit_code = -1
    /\ now = 0
    /\ rule_index = 1
    /\ calls = <<>>

\* _load_model_data: model_data['parameters'].update(parameters)
PhysicsExtract ==
    /\ pc = "physics_load"
    /\ \E kv \in PhysicsInputs :
        model_data' = [model_data EXCEPT !.parameters = update(@, <<kv>>)]
    /\ UNCHANGED <<pc, args, config, rules, error, pending, report, raised,
                   document, exit_code, now, rule_index, calls>>

\* the turn of validate_model's loop for the physics_validation rule
PhysicsValidate ==
    /\ pc = "physics_load"
    /\ report' = rule_step(report, rules[rule_index],
                           validate(rules[rule_index], model_data))
    /\ rule_index' = rule_index + 1
    /\ pc' = "physics_done"
    /\ UNCHANGED <<args, config, rules, error, model_data, pending, raised,
                   document, exit_code, now, calls>>

NextPhysics == PhysicsExtract \/ PhysicsValidate

SpecPhysics == InitPhysics /\ [][NextPhysics]_vars

\* the extracted value of the name, 0 when the name was not extracted
Read(name) ==
    IF \E i \in DOMAIN model_data.parameters : model_data.parameters[i][1] = name
    THEN model_data.parameters[
            CHOOSE i \in DOMAIN model_data.parameters :
                model_data.parameters[i][1] = name][2]
    ELSE Float(0, 0)

Positive(x) == ~x.neg /\ x.mant > 0

\* |pressure/temperature - density/100| > 0.5 * (pressure/temperature), for
\* a positive temperature: density/100 is below half of pressure/temperature
\* or above one and a half times it
RatiosApart ==
    LET product == Times(Read(density), Read(temperature))
    IN  \/ Less(product, Times(Int_(50), Read(pressure)))
        \/ Less(Times(Int_(150), Read(pressure)), product)

\* the violations of the failed result's details, none when the rule passed
PhysicsViolations ==
    IF report.results[1].passed THEN <<>> ELSE report.results[1].details.violations

\* the result lists a density inconsistency
DensityFlagged ==
    \E k \in DOMAIN PhysicsViolations : PhysicsViolations[k][1] = "Density ("

\* the result lists a unit confusion
UnitsFlagged ==
    \E k \in DOMAIN PhysicsViolations : PhysicsViolations[k][1] = "Temperature ("

\* C15: the physics rule lists a density inconsistency exactly when
\* temperature, pressure and density are all positive, absent ones read as
\* 0, and |pressure/temperature - density/100| > 0.5 * pressure/temperature.
C15_DensityInconsistency ==
    pc = "physics_done" =>
        DensityFlagged =
            (/\ Positive(Read(temperature))
             /\ Positive(Read(pressure))
             /\ Positive(Read(density))
             /\ RatiosApart)

C15_Witness ==
    /\ pc = "physics_done"
    /\ Range(model_data.parameters)
         = {<<temperature, Float(50, 0)>>, <<pressure, Float(100, 0)>>,
            <<density, Float(301, 0)>>}
    /\ DensityFlagged
    /\ ~UnitsFlagged

\* C16: the physics rule lists a unit confusion exactly when
\* 0 < temperature < 10, whatever pressure and density are and whether or
\* not a density inconsistency is listed; it fails, with severity ERROR,
\* exactly when it lists one of the two.
C16_UnitConfusion ==
    pc = "physics_done" =>
        /\ UnitsFlagged = (Positive(Read(temperature))
                           /\ Less(Read(temperature), Int_(10)))
        /\ report.results[1].passed = ~(DensityFlagged \/ UnitsFlagged)
        /\ ~report.results[1].passed => report.results[1].severity = "ERROR"
        /\ Len(PhysicsViolations) = (IF DensityFlagged THEN 1 ELSE 0)
                                    + (IF UnitsFlagged THEN 1 ELSE 0)
        /\ Read(temperature) = Float(50, 0) => ~UnitsFlagged
        /\ Read(temperature) = Float(5, 0) => UnitsFlagged

C16_Witness ==
    /\ pc = "physics_done"
    /\ model_data.parameters = << <<temperature, Float(5, 0)>> >>
    /\ UnitsFlagged
    /\ ~DensityFlagged
    /\ ~report.results[1].passed
    /\ report.results[1].severity = "ERROR"

(***************************************************************************)
(* validate_model as a call with its own locals: an element of calls holds *)
(* the model_data and the report of one call, its place in the call, and   *)
(* the entries rglob has yielded to it so far, each with the file system's *)
(* answer.  The engine's config and rules are read by every call.          *)
(***************************************************************************)
\* validate_model(model) entered at time t: the report is constructed and
\* _load_model_data is about to scan the directory
call_frame(model, t) ==
    [pc |-> "load", model |-> model, pending |-> entries_of(model),
     loaded |-> <<>>, model_data |-> NoModelData,
     report |-> ValidationReport(model, t), rule_index |-> 0]

\* a turn of the loading loop that writes to one model_data kept by the
\* engine, seen by every call
CallLoad_shared(i) ==
    /\ calls[i].pc = "load"
    /\ \E entry \in calls[i].pending :
        \E failure \in {"ok"} \cup entry.faults :
            calls' = [j \in DOMAIN calls |->
                        [calls[j] EXCEPT
                            !.model_data = load_entry(@, entry, failure, config),
                            !.pending = IF j = i THEN @ \ {entry} ELSE @,
                            !.loaded = IF j = i THEN Append(@, <<entry, failure>>)
                                       ELSE @]]
    /\ UNCHANGED <<pc, args, config, rules, error, model_data, pending, report,
                   raised, document, exit_code, now, rule_index>>

\* one turn of _load_model_data's loop in call i
CallLoad(i) ==
    /\ calls[i].pc = "load"
    /\ \E entry \in calls[i].pending :
        \E failure \in {"ok"} \cup entry.faults :
            calls' = [calls EXCEPT
                        ![i].model_data = load_entry(@, entry, failure, config),
                        ![i].pending = @ \ {entry},
                        ![i].loaded = Append(@, <<entry, failure>>)]
    /\ UNCHANGED <<pc, args, config, rules, error, model_data, pending, report,
                   raised, document, exit_code, now, rule_index>>

\* _load_model_data returns in call i
CallLoadDone(i) ==
    /\ calls[i].pc = "load"
    /\ calls[i].pending = {}
    /\ calls' = [calls EXCEPT ![i].pc = "rules", ![i].rule_index = 1]
    /\ UNCHANGED <<pc, args, config, rules, error, model_data, pending, report,
                   raised, document, exit_code, now, rule_index>>

\* a turn of the rule loop whose rule empties the parameters it was given
CallRule_consuming(i) ==
    /\ calls[i].pc = "rules"
    /\ calls[i].rule_index <= Len(rules)
    /\ calls' = [calls EXCEPT
                    ![i].report =
                        rule_step(@, rules[calls[i].rule_index],
                                  validate(rules[calls[i].rule_index],
                                           calls[i].model_data)),
                    ![i].model_data.parameters = <<>>,
                    ![i].rule_index = @ + 1]
    /\ UNCHANGED <<pc, args, config, rules, error, model_data, pending, report,
                   raised, document, exit_code, now, rule_index>>

\* one turn of validate_model's rule loop in call i
CallRule(i) ==
    /\ calls[i].pc = "rules"
    /\ calls[i].rule_index <= Len(rules)
    /\ calls' = [calls EXCEPT
                    ![i].report =
                        rule_step(@, rules[calls[i].rule_index],
                                  validate(rules[calls[i].rule_index],
                                           calls[i].model_data)),
                    ![i].rule_index = @ + 1]
    /\ UNCHANGED <<pc, args, config, rules, error, model_data, pending, report,
                   raised, document, exit_code, now, rule_index>>

\* what the clock may have advanced by when a call finalizes its report
CallElapsed == {0, 15}

\* report.finalize() and the return of call i
CallFinalize(i) ==
    /\ calls[i].pc = "rules"
    /\ calls[i].rule_index > Len(rules)
    /\ \E d \in CallElapsed :
        /\ now' = now + d
        /\ calls' = [calls EXCEPT ![i].report = finalize(@, now'),
                                  ![i].pc = "returned"]
    /\ UNCHANGED <<pc, args, config, rules, error, model_data, pending, report,
                   raised, document, exit_code, rule_index>>

\* a step of one of the calls in progress
SomeCallLoads == \E i \in DOMAIN calls : CallLoad(i)

SomeCallLoadDone == \E i \in DOMAIN calls : CallLoadDone(i)

SomeCallRule == \E i \in DOMAIN calls : CallRule(i)

SomeCallFinalizes == \E i \in DOMAIN calls : CallFinalize(i)

\* the engines of the specifications of calls: default and overridden
CallConfigs == {NotGiven, Given(MixedDoc)}

\* the model directories the calls validate
CallModels == {"good_model", "bad_model", "empty_model"}

\* an engine has been constructed and no call made on it
InitEngine ==
    /\ calls = <<>>
    /\ pc = "engine"
    /\ \E c \in CallConfigs :
        /\ args = [config |-> c, output |-> FALSE, model |-> "none"]
        /\ config = _load_config(c).value
        /\ rules = _initialize_rules(config)
    /\ error = "none"
    /\ model_data = NoModelData
    /\ pending = {}
    /\ report = NoReport
    /\ raised = {}
    /\ document = NoDocument
    /\ exit_code = -1
    /\ now = 0
    /\ rule_index = 0

(***************************************************************************)
(* SpecSequence: validate_model is called on one engine again and again,   *)
(* each call after the one before it has returned.                         *)
(***************************************************************************)
\* validate_model is called once the call before it has returned
SequenceCall ==
    /\ Len(calls) < MaxCalls
    /\ calls # <<>> => calls[Len(calls)].pc = "returned"
    /\ \E model \in CallModels : calls' = Append(calls, call_frame(model, now))
    /\ UNCHANGED <<pc, args, config, rules, error, model_data, pending, report,
                   raised, document, exit_code, now, rule_index>>

NextSequence ==
    SequenceCall \/ SomeCallLoads \/ SomeCallLoadDone \/ SomeCallRule
        \/ SomeCallFinalizes

SpecSequence == InitEngine /\ [][NextSequence]_vars

RECURSIVE loaded_data(_)
\* the model data a new call builds from the entries, in the order given
loaded_data(loaded) ==
    IF loaded = <<>> THEN NoModelData
    ELSE load_entry(loaded_data(SubSeq(loaded, 1, Len(loaded) - 1)),
                    loaded[Len(loaded)][1], loaded[Len(loaded)][2], config)

\* the results of a report that are failed and of the given severity
FailedIn(results, severity) ==
    {k \in DOMAIN results : ~results[k].passed /\ results[k].severity = severity}

\* the call's model data and report come from the call's own model alone:
\* the data is what a new call loads from the entries yielded to this one,
\* the results are those of the engine's rules on that data, one per rule
\* run, and the counters count these results
OwnModelOnly(call) ==
    /\ {call.loaded[k][1] : k \in DOMAIN call.loaded} \cup call.pending
         = entries_of(call.model)
    /\ call.model_data = loaded_data(call.loaded)
    /\ call.report.model_name = call.model
    /\ Len(call.report.results)
         = (IF call.pc = "load" THEN 0
            ELSE IF call.pc = "rules" THEN call.rule_index - 1 ELSE Len(rules))
    /\ \A k \in DOMAIN call.report.results :
        call.report.results[k] = validate(rules[k], call.model_data).value
    /\ call.report.summary.total_rules = Len(call.report.results)
    /\ call.report.summary.passed
         = Cardinality({k \in DOMAIN call.report.results :
                            call.report.results[k].passed})
    /\ call.report.summary.failed
         = Cardinality({k \in DOMAIN call.report.results :
                            ~call.report.results[k].passed})
    /\ call.report.summary.errors
         = Cardinality(FailedIn(call.report.results, "ERROR"))
    /\ call.report.summary.warnings
         = Cardinality(FailedIn(call.report.results, "WARNING"))

\* the engine's configuration and rules are those of its construction
EngineAsConstructed ==
    /\ config = _load_config(args.config).value
    /\ rules = _initialize_rules(config)

\* C17: in any sequence of validate_model calls on one engine, each call's
\* report and model data reflect that call's model alone, total_rules of a
\* returned report is the engine's rule count, and no step of a call changes
\* the engine's configuration or rule list.
C17_CallsAreFresh ==
    /\ [](pc = "engine" =>
            /\ EngineAsConstructed
            /\ \A i \in DOMAIN calls :
                /\ OwnModelOnly(calls[i])
                /\ calls[i].pc = "returned" =>
                    calls[i].report.summary.total_rules = Len(rules))
    /\ [][config' = config /\ rules' = rules]_vars

C17_Witness ==
    /\ pc = "engine"
    /\ Len(calls) = 2
    /\ calls[1].model = "bad_model" /\ calls[1].pc = "returned"
    /\ calls[2].model = "good_model" /\ calls[2].pc = "returned"
    /\ Len(rules) = 5
    /\ calls[1].report.summary.failed >= 3
    /\ calls[2].report.summary.total_rules = 5
    /\ calls[2].report.summary.failed < calls[1].report.summary.failed

\* what a caller compares of two results: passed, severity and message
Outcome(result) == <<result.passed, result.severity, result.message>>

\* call i has just run the rule at place k of rules
RanRule(i, k) ==
    /\ i \in DOMAIN calls /\ i \in DOMAIN calls'
    /\ calls[i].pc = "rules"
    /\ calls[i].rule_index = k
    /\ calls'[i].rule_index = k + 1

C23_LoadOrderIndependent ==
    pc = "engine" =>
        \A i, j \in DOMAIN calls :
            (calls[i].model = calls[j].model
                /\ calls[i].pc # "load" /\ calls[j].pc # "load") =>
                /\ \A name \in Range(keys(calls[i].model_data.parameters)) :
                    get(calls[i].model_data.parameters, name)
                        = get(calls[j].model_data.parameters, name)
                /\ keys(calls[i].model_data.files) = keys(calls[j].model_data.files)

(***************************************************************************)
(* SpecConcurrent: two threads call validate_model on one engine; the      *)
(* steps of the two calls interleave in every way.                         *)
(***************************************************************************)
Threads == {"first", "second"}

\* a thread calls validate_model, whatever the other thread is doing
ConcurrentCall ==
    /\ Len(calls) < Cardinality(Threads)
    /\ \E model \in CallModels : calls' = Append(calls, call_frame(model, now))
    /\ UNCHANGED <<pc, args, config, rules, error, model_data, pending, report,
                   raised, document, exit_code, now, rule_index>>

NextConcurrent ==
    ConcurrentCall \/ SomeCallLoads \/ SomeCallLoadDone \/ SomeCallRule
        \/ SomeCallFinalizes

SpecConcurrent == InitEngine /\ [][NextConcurrent]_vars

RECURSIVE run_rules(_, _, _)
\* validate_model's rule loop run without interruption from rule k on
run_rules(rep, k, data) ==
    IF k > Len(rules) THEN rep
    ELSE run_rules(rule_step(rep, rules[k], validate(rules[k], data)), k + 1, data)

\* the report validate_model returns when it runs alone on the model, given
\* the order and answers of the file system and the two clock readings
alone_report(model, loaded, start_time, end_time) ==
    finalize(run_rules(ValidationReport(model, start_time), 1, loaded_data(loaded)),
             end_time)

\* C18: with two validate_model calls interleaved in any way on one engine,
\* each call returns the report it would return running alone; no result of
\* one call is in the other's report, and each report's counters add up.
C18_ConcurrentCallsIsolated ==
    pc = "engine" =>
        \A i \in DOMAIN calls :
            /\ calls[i].model_data = loaded_data(calls[i].loaded)
            /\ calls[i].pc = "returned" =>
                calls[i].report
                    = alone_report(calls[i].model, calls[i].loaded,
                                   calls[i].report.start_time,
                                   calls[i].report.end_time[1])
            /\ calls[i].report.summary.passed + calls[i].report.summary.failed
                 = calls[i].report.summary.total_rules
            /\ calls[i].report.summary.total_rules = Len(calls[i].report.results)

C18_Witness ==
    /\ pc = "engine"
    /\ Len(calls) = 2
    /\ calls[1].model = "good_model" /\ calls[2].model = "bad_model"
    /\ calls[1].pc = "returned" /\ calls[2].pc = "returned"
    /\ calls[2].report.start_time = 0
    /\ calls[2].report.end_time = <<0>>
    /\ calls[1].report.end_time = <<15>>
    /\ calls[1].report.summary.failed < calls[2].report.summary.failed

(***************************************************************************)
(* SpecSamples: an engine validates one of the directories that            *)
(* create_sample_models.py writes, under the default configuration or      *)
(* under the validation_config.json written next to them.  rglob yields    *)
(* the files in any order.                                                 *)
(***************************************************************************)
SampleConfigs == {NotGiven, Given(SampleDoc)}

SampleModels == {"valid_fluid_model", "warning_structural_model"}

\* an engine has been constructed and no call made on it
InitSamples ==
    /\ calls = <<>>
    /\ pc = "engine"
    /\ \E c \in SampleConfigs :
        /\ args = [config |-> c, output |-> FALSE, model |-> "none"]
        /\ config = _load_config(c).value
        /\ rules = _initialize_rules(config)
    /\ error = "none"
    /\ model_data = NoModelData
    /\ pending = {}
    /\ report = NoReport
    /\ raised = {}
    /\ document = NoDocument
    /\ exit_code = -1
    /\ now = 0
    /\ rule_index = 0

\* validate_model is called on a sample directory
SampleCall ==
    /\ calls = <<>>
    /\ \E model \in SampleModels : calls' = <<call_frame(model, now)>>
    /\ UNCHANGED <<pc, args, config, rules, error, model_data, pending, report,
                   raised, document, exit_code, now, rule_index>>

NextSamples ==
    SampleCall \/ SomeCallLoads \/ SomeCallLoadDone \/ SomeCallRule
        \/ SomeCallFinalizes

SpecSamples == InitSamples /\ [][NextSamples]_vars

\* the call has returned its report on the model
SampleReturned(model) ==
    /\ pc = "engine"
    /\ calls # <<>>
    /\ calls[1].model = model
    /\ calls[1].pc = "returned"

\* C19: under the default configuration the report on valid_fluid_model has
\* failed == 0 and is valid, all five rules having passed.
C19_ValidFluidModelPasses ==
    SampleReturned("valid_fluid_model") /\ args.config = NotGiven =>
        /\ calls[1].report.summary.total_rules = 5
        /\ calls[1].report.summary.failed = 0
        /\ is_valid(calls[1].report)

\* C20: the report on warning_structural_model is valid, errors == 0, and
\* carries at least one warning.
C20_WarningModelWarns ==
    SampleReturned("warning_structural_model") =>
        /\ calls[1].report.summary.errors = 0
        /\ is_valid(calls[1].report)
        /\ calls[1].report.summary.warnings >= 1

(***************************************************************************)
(* SpecLoad: an engine validates a directory whose files may fail to       *)
(* decode, to open or to stat.  rglob yields the entries in any order and  *)
(* the file system fails where the entry allows it; each call keeps, in    *)
(* loaded, the entries yielded to it and the failure met at each.          *)
(***************************************************************************)
LoadConfigs == {NotGiven, Given(MixedDoc)}

LoadModels == {"flaky_model", "nested_model", "good_model"}

\* an engine has been constructed and no call made on it
InitLoad ==
    /\ calls = <<>>
    /\ pc = "engine"
    /\ \E c \in LoadConfigs :
        /\ args = [config |-> c, output |-> FALSE, model |-> "none"]
        /\ config = _load_config(c).value
        /\ rules = _initialize_rules(config)
    /\ error = "none"
    /\ model_data = NoModelData
    /\ pending = {}
    /\ report = NoReport
    /\ raised = {}
    /\ document = NoDocument
    /\ exit_code = -1
    /\ now = 0
    /\ rule_index = 0

\* validate_model is called on a directory
LoadCall ==
    /\ calls = <<>>
    /\ \E model \in LoadModels : calls' = <<call_frame(model, now)>>
    /\ UNCHANGED <<pc, args, config, rules, error, model_data, pending, report,
                   raised, document, exit_code, now, rule_index>>

NextLoad ==
    LoadCall \/ SomeCallLoads \/ SomeCallLoadDone \/ SomeCallRule
        \/ SomeCallFinalizes

SpecLoad == InitLoad /\ [][NextLoad]_vars

\* the entry is a file of one of the configured types
Typed(entry) ==
    entry.is_file /\ suffix(entry.path) \in Range(get(config, "file_types"))

\* the turns of the call's loading loop so far that met a file of a
\* configured type
TypedTurns == {k \in DOMAIN calls[1].loaded : Typed(calls[1].loaded[k][1])}

\* the content reading gives when the file opens: the text, in UTF-8 or in
\* Latin-1, or the sentinel when the Latin-1 open fails
ContentRead(entry, failure) ==
    IF entry.encoding = "latin-1" /\ failure = "reopen" THEN BINARY_FILE
    ELSE entry.content

\* the places of the call's results that come from the Format rule
FormatResults ==
    {k \in DOMAIN calls[1].report.results : rules[k].class = "FileFormatRule"}

\* C21: when a file's first open and its stat calls succeed, reading its
\* content does not raise whatever its bytes are: the file gets a record
\* holding the UTF-8 text, the Latin-1 text, or the sentinel
\* "[BINARY_FILE]", and the entries after it are still loaded; the report
\* has no result while loading, and a recorded sentinel is an entry of the
\* Format rule's failed result.
C21_ReadingNeverRaises ==
    (pc = "engine" /\ calls # <<>>) =>
        /\ \A k \in TypedTurns :
            LET entry == calls[1].loaded[k][1]
                failure == calls[1].loaded[k][2]
            IN  failure \in {"ok", "reopen"} =>
                /\ ~_read_file_safely(entry, failure).raised
                /\ _read_file_safely(entry, failure).value
                     = ContentRead(entry, failure)
                /\ has_key(calls[1].model_data.files, entry.path)
                /\ get(calls[1].model_data.files, entry.path).content
                     = ContentRead(entry, failure)
                /\ ContentRead(entry, failure) = BINARY_FILE =>
                    \A r \in FormatResults :
                        /\ ~calls[1].report.results[r].passed
                        /\ entry.path \o <<": Empty or unreadable file">>
                             \in Range(calls[1].report.results[r].details.format_errors)
        /\ calls[1].pc = "load" =>
            /\ calls[1].report.results = <<>>
            /\ calls[1].report.summary.errors = 0
        /\ calls[1].pc # "load" =>
            {calls[1].loaded[k][1] : k \in DOMAIN calls[1].loaded}
                = entries_of(calls[1].model)

C21_Witness ==
    /\ pc = "engine" /\ calls # <<>>
    /\ calls[1].pc = "returned"
    /\ calls[1].model = "flaky_model"
    /\ \E k \in TypedTurns :
        /\ calls[1].loaded[k][1].encoding = "latin-1"
        /\ calls[1].loaded[k][2] = "reopen"
        /\ k < Len(calls[1].loaded)
        /\ get(calls[1].model_data.files, calls[1].loaded[k][1].path).content
             = BINARY_FILE
    /\ has_key(calls[1].model_data.files, input_dat)
    /\ FormatResults # {}
    /\ calls[1].report.summary.errors >= 1

\* the turns at which the file could not be opened or stat-ed
FailedTurns ==
    {k \in TypedTurns :
        calls[1].loaded[k][2] \in {"open", "stat_size", "stat_mtime", "stat_total"}}

RECURSIVE SizeOfTurns(_)
\* the sizes of the files met at the given turns, added up
SizeOfTurns(turns) ==
    IF turns = {} THEN 0
    ELSE LET k == CHOOSE t \in turns : TRUE
         IN  calls[1].loaded[k][1].size + SizeOfTurns(turns \ {k})

\* C22: a file that cannot be opened or stat-ed, at whichever step, is
\* skipped: it has no file record and is counted in neither file_count nor
\* total_size, and every other file of a configured type is loaded.
C22_FailedFileSkipped ==
    (pc = "engine" /\ calls # <<>>) =>
        /\ \A k \in FailedTurns :
            ~has_key(calls[1].model_data.files, calls[1].loaded[k][1].path)
        /\ \A k \in TypedTurns \ FailedTurns :
            has_key(calls[1].model_data.files, calls[1].loaded[k][1].path)
        /\ calls[1].model_data.metadata.file_count
             = Cardinality(TypedTurns \ FailedTurns)
        /\ calls[1].model_data.metadata.total_size
             = SizeOfTurns(TypedTurns \ FailedTurns)

RECURSIVE SizeOfFiles(_)
\* the size fields of the file records, added up
SizeOfFiles(files) ==
    IF files = <<>> THEN 0 ELSE files[1][2].size + SizeOfFiles(Tail(files))

\* C28: once _load_model_data has returned, file_count is the number of
\* file records and total_size the sum of their size fields, whatever
\* failed during the load.
C28_MetadataMatchesFiles ==
    (pc = "engine" /\ calls # <<>> /\ calls[1].pc # "load") =>
        /\ calls[1].model_data.metadata.file_count
             = Len(calls[1].model_data.files)
        /\ calls[1].model_data.metadata.total_size
             = SizeOfFiles(calls[1].model_data.files)

(***************************************************************************)
(* SpecExtract: _extract_parameters applied to a text.  The text is put    *)
(* together from a few fragments: settings in each of the three forms, the *)
(* same name in both cases, a second name, separators and loose pieces.    *)
(* args holds the text, model_data.parameters the mapping returned.        *)
(***************************************************************************)
MaxFragments == 3

Fragments ==
    { <<"a", "=", "1">>, <<"A", " ", "2">>, <<"a", ":", "3">>,
      <<"b", " ", "=", " ", "-", ".", "5", "e", "1">>,
      <<"\n">>, <<" ">>, <<"x">>, <<"a", " ", "=">>, <<"7">> }

RECURSIVE concat(_)
\* ''.join of a sequence of texts
concat(texts) ==
    IF texts = <<>> THEN <<>> ELSE texts[1] \o concat(Tail(texts))

Texts == {concat(t) : t \in SeqsUpTo(Fragments, MaxFragments)}

InitExtract ==
    /\ calls = <<>>
    /\ pc = "extract"
    /\ \E content \in Texts : args = [content |-> content]
    /\ config = _load_config(NotGiven).value
    /\ rules = <<>>
    /\ error = "none"
    /\ model_data = NoModelData
    /\ pending = {}
    /\ report = NoReport
    /\ raised = {}
    /\ document = NoDocument
    /\ exit_code = -1
    /\ now = 0
    /\ rule_index = 0

\* _extract_parameters is called on the text and returns
Extract ==
    /\ pc = "extract"
    /\ pc' = "extracted"
    /\ model_data' =
         [model_data EXCEPT !.parameters = extract_parameters(args.content)]
    /\ UNCHANGED <<args, config, rules, error, pending, report, raised,
                   document, exit_code, now, rule_index, calls>>

NextExtract == Extract

SpecExtract == InitExtract /\ [][NextExtract]_vars

\* the matches of the three patterns on a text in the order they are
\* applied: those of the first pattern, then the second, then the third,
\* each pattern's in the order of the text
Applied(content) ==
    findall("key=value", content, 1) \o findall("key: value", content, 1)
        \o findall("key value", content, 1)

\* the place in a sequence of matches of the last one of a name, 0 if none
LastOf(matches, name) ==
    IF \E j \in DOMAIN matches : lower(matches[j][1]) = name
    THEN CHOOSE j \in DOMAIN matches :
            /\ lower(matches[j][1]) = name
            /\ \A l \in DOMAIN matches : l > j => lower(matches[l][1]) # name
    ELSE 0

\* C24: parameter extraction applies the patterns in the order
\* `name = number`, `name : number`, `name<whitespace>number`; the mapping
\* returned has exactly the lowercased names of the matches, each once; a
\* name has the value of its last match in application order, so a name with
\* a whitespace-form match has the value of the last of these wherever an
\* `=`-form match of it stands in the text; a text with no match gives the
\* empty mapping.
C24_LastMatchApplied ==
    pc = "extracted" =>
        LET content == args.content
            parameters == model_data.parameters
            applied == Applied(content)
            spaced == findall(patterns[3], content, 1)
            names == {lower(applied[j][1]) : j \in DOMAIN applied}
        IN  /\ patterns = <<"key=value", "key: value", "key value">>
            /\ Range(keys(parameters)) = names
            /\ Len(parameters) = Cardinality(names)
            /\ \A name \in names :
                /\ get(parameters, name)
                     = float_of(applied[LastOf(applied, name)][2])
                /\ LastOf(spaced, name) # 0 =>
                     get(parameters, name)
                       = float_of(spaced[LastOf(spaced, name)][2])
            /\ applied = <<>> => parameters = <<>>

\* the text "A 2\na=1" has been extracted: the name is stored as a, with the
\* value of the whitespace form that stands before the `=` form
C24_Witness ==
    /\ pc = "extracted"
    /\ args.content = <<"A", " ", "2", "\n", "a", "=", "1">>
    /\ findall("key=value", args.content, 1) = << <<<<"a">>, <<"1">>>> >>
    /\ findall("key value", args.content, 1) = << <<<<"A">>, <<"2">>>> >>
    /\ model_data.parameters = << <<<<"a">>, Float(2, 0)>> >>

=============================================================================
